---- MODULE Spec2Model ----
(***************************************************************************)
(* Verification model of the ghostty-web rendering layer:                  *)
(*   - RenderScheduler (lib/render-scheduler.ts): requestAnimationFrame    *)
(*     coalescing of render callbacks, with cancellation;                  *)
(*   - CanvasRenderer (lib/renderer.ts): attach / resize / render / clear, *)
(*     dirty-row computation and selection geometry.                       *)
(* Spec  is the scheduler together with the resize barrier of its caller.  *)
(* RSpec is the renderer driven by bounded render inputs.                  *)
(***************************************************************************)
EXTENDS Integers, Sequences, FiniteSets, TLC

\* ------------------------------------------------------------------------
\* Bounds
\* ------------------------------------------------------------------------
MaxId == 3          \* schedule() calls in one behaviour
MaxResize == 1      \* barrier resizes in one behaviour

\* Callback identities and scheduledAt values handed to schedule().
\* scheduledAt is number | null: <<>> is null, <<t>> the number t.
Callbacks == {"render"}
Stamps == {<<>>, <<1>>}

\* ------------------------------------------------------------------------
\* State
\* ------------------------------------------------------------------------
VARIABLES
  pending,      \* RenderScheduler.pending: Map in insertion order, as a sequence
  nextId,       \* RenderScheduler.nextId
  rafId,        \* RenderScheduler.rafId: 0 is undefined, else the request id
  rafQueue,     \* browser: requestAnimationFrame requests requested and not yet fired
  rafCount,     \* browser: number of requests made so far (ids are 1, 2, ...)
  pc,           \* "idle": no flush running; "flush": between callbacks; "cb": inside a callback
  entries,      \* flush(): the swapped-out batch (local variable entries)
  idx,          \* flush(): index of the entry the for loop is at
  now,          \* flush(): boundary timestamp of the running / most recent flush
  log,          \* history: callback invocations, in order
  batch,        \* history: ids of the entries pending when the most recent boundary fired
  cancelled,    \* history: ids removed from pending by cancel()
  staleCancel,  \* history: ids cancel() was called with while it was in the batch being flushed
  cancelCalls,  \* history: issued ids cancel() was called with, whatever the effect
  dropped,      \* history: ids of a batch never invoked because a callback threw
  threw,        \* history: the most recent flush was ended by a throwing callback
  epoch,        \* history: number of resizes performed by the caller
  reg,          \* history: id -> the arguments of the schedule() call that returned it,
                \*          epoch and now at that call, and the id of the callback
                \*          that made the call (0 at top level)
  barrier,      \* caller: "none", or "resized" between its resize and its fresh schedule
  fresh,        \* history: handle of the render scheduled right after the last resize, 0 if none
  canvas,       \* CanvasRenderer.canvas: "none" is undefined, else the canvas element
  ctx,          \* CanvasRenderer.ctx: "none" is undefined, else the canvas the 2D context draws to
  theme,        \* CanvasRenderer.theme
  devicePixelRatio,          \* CanvasRenderer.devicePixelRatio, a rational [n, d]
  metrics,                   \* CanvasRenderer.metrics
  fontSize,                  \* CanvasRenderer.fontSize
  currentSelectionRange,     \* <<>> is null, else <<range>>
  currentHoveredLink,        \* <<>> is null, else <<link>>
  currentGetGraphemeString,  \* 0 is undefined, else the lookup function's identity
  size,         \* canvas element -> [width, height, styleWidth, styleHeight]
  context,      \* state of the 2D context: fillStyle, globalAlpha, scale, textBaseline, textAlign
  call,         \* history: the most recent renderer call and its arguments
  err,          \* history: "" if that call returned, else the error it threw
  ops,          \* history: the draw operations that call issued, in order
  calls         \* history: number of renderer calls made

schedVars == <<pending, nextId, rafId, rafQueue, rafCount, pc, entries, idx, now>>
histVars == <<log, batch, cancelled, staleCancel, cancelCalls, dropped, threw, epoch, reg, barrier, fresh>>
styleVars == <<theme, metrics, currentSelectionRange, currentHoveredLink,
               currentGetGraphemeString>>
rendVars == <<canvas, ctx, devicePixelRatio, fontSize, styleVars, size, context,
              call, err, ops, calls>>
vars == <<schedVars, histVars, rendVars>>

\* ------------------------------------------------------------------------
\* Helpers over the Map
\* ------------------------------------------------------------------------
Ids(p) == {p[i].id : i \in 1..Len(p)}

IdSeq(p) == [i \in 1..Len(p) |-> p[i].id]

\* Map.prototype.set: a new key is appended, an existing key keeps its place.
MapSet(p, id, v) ==
  IF id \in Ids(p)
    THEN [i \in 1..Len(p) |-> IF p[i].id = id THEN v ELSE p[i]]
    ELSE Append(p, v)

\* Map.prototype.delete: removes the key, the others keep their order.
MapDelete(p, id) == SelectSeq(p, LAMBDA e : e.id # id)

\* ------------------------------------------------------------------------
\* RenderScheduler
\* ------------------------------------------------------------------------
\* ensureRaf(): r is [rafId, rafQueue, rafCount].
ensureRafUnguarded(r) ==
  [rafId |-> r.rafCount + 1,
   rafQueue |-> r.rafQueue \cup {r.rafCount + 1},
   rafCount |-> r.rafCount + 1]

ensureRafNever(r) == r

ensureRaf(r) ==
  IF r.rafId # 0
    THEN r
    ELSE [rafId |-> r.rafCount + 1,
          rafQueue |-> r.rafQueue \cup {r.rafCount + 1},
          rafCount |-> r.rafCount + 1]

Raf == [rafId |-> rafId, rafQueue |-> rafQueue, rafCount |-> rafCount]

SetRaf(r) ==
  /\ rafId' = r.rafId
  /\ rafQueue' = r.rafQueue
  /\ rafCount' = r.rafCount

\* cancel(id) on the Map.
cancelClears(p, id) == <<>>

cancelNothing(p, id) == p

cancel(p, id) == MapDelete(p, id)

\* flush(), line 34: entries is a copy (Array.from) of the Map's values, so an
\* entry e that schedule() adds to the Map while the copy es is being iterated
\* does not join it.
entriesOnScheduleLive(es, e, inFlush) == IF inFlush THEN Append(es, e) ELSE es

entriesOnSchedule(es, e, inFlush) == es

\* schedule(callback, scheduledAt) with const id = this.nextId: no increment.
scheduleReusingId(cb, at) ==
  /\ nextId <= MaxId
  /\ nextId' = nextId
  /\ pending' = MapSet(pending, nextId, [id |-> nextId, callback |-> cb, scheduledAt |-> at])
  /\ SetRaf(ensureRaf(Raf))
  /\ reg' = [reg EXCEPT ![nextId] = [epoch |-> epoch, now |-> now,
                                   by |-> IF pc = "cb" THEN entries[idx].id ELSE 0,
                                   callback |-> cb, scheduledAt |-> at]]
  /\ entries' = entriesOnSchedule(entries,
                                   [id |-> nextId, callback |-> cb, scheduledAt |-> at],
                                   pc = "cb")
  /\ UNCHANGED <<pc, idx, now>>
  /\ UNCHANGED <<log, batch, cancelled, staleCancel, cancelCalls, dropped, threw, epoch>>
  /\ UNCHANGED rendVars

\* schedule(callback, scheduledAt): at top level or from inside a callback.
schedule(cb, at) ==
  /\ nextId <= MaxId
  /\ nextId' = nextId + 1
  /\ pending' = MapSet(pending, nextId, [id |-> nextId, callback |-> cb, scheduledAt |-> at])
  /\ SetRaf(ensureRaf(Raf))
  /\ reg' = [reg EXCEPT ![nextId] = [epoch |-> epoch, now |-> now,
                                   by |-> IF pc = "cb" THEN entries[idx].id ELSE 0,
                                   callback |-> cb, scheduledAt |-> at]]
  /\ entries' = entriesOnSchedule(entries,
                                   [id |-> nextId, callback |-> cb, scheduledAt |-> at],
                                   pc = "cb")
  /\ UNCHANGED <<pc, idx, now>>
  /\ UNCHANGED <<log, batch, cancelled, staleCancel, cancelCalls, dropped, threw, epoch>>
  /\ UNCHANGED rendVars

\* A schedule() call other than the caller's fresh render after a resize.
Schedule(cb, at) ==
  /\ pc \in {"idle", "cb"}
  /\ barrier = "none"
  /\ schedule(cb, at)
  /\ UNCHANGED <<barrier, fresh>>

\* cancel(id): at top level or from inside a callback; id may be any number.
Cancel(id) ==
  /\ pc \in {"idle", "cb"}
  /\ barrier = "none"
  /\ pending' = cancel(pending, id)
  /\ cancelled' = IF id \in Ids(pending) THEN cancelled \cup {id} ELSE cancelled
  /\ staleCancel' = IF pc = "cb" /\ id \in Ids(entries)
                      THEN staleCancel \cup {id} ELSE staleCancel
  /\ cancelCalls' = IF id < nextId THEN cancelCalls \cup {id} ELSE cancelCalls
  /\ UNCHANGED <<nextId, rafId, rafQueue, rafCount, pc, entries, idx, now>>
  /\ UNCHANGED <<log, batch, dropped, threw, epoch, reg, barrier, fresh>>
  /\ UNCHANGED rendVars

\* flush(now), lines 30-35: the browser fires request r.
flushSwapKeeps(p) == p

flushSwap(p) == <<>>

\* flush(now) without line 30: rafId keeps the id of the request that fired.
BoundaryFireKeepsRafId(r) ==
  /\ pc = "idle"
  /\ r \in rafQueue
  /\ rafQueue' = rafQueue \ {r}
  /\ rafId' = rafId
  /\ now' = now + 1
  /\ threw' = FALSE
  /\ IF Len(pending) = 0
       THEN UNCHANGED <<pending, entries, idx, pc>>
       ELSE /\ entries' = pending
            /\ pending' = flushSwap(pending)
            /\ idx' = 1
            /\ pc' = "flush"
  /\ batch' = IdSeq(pending)
  /\ UNCHANGED <<nextId, rafCount>>
  /\ UNCHANGED <<log, cancelled, staleCancel, cancelCalls, dropped, epoch, reg, barrier, fresh>>
  /\ UNCHANGED rendVars

BoundaryFire(r) ==
  /\ pc = "idle"
  /\ r \in rafQueue
  /\ rafQueue' = rafQueue \ {r}
  /\ rafId' = 0
  /\ now' = now + 1
  /\ threw' = FALSE
  /\ IF Len(pending) = 0
       THEN UNCHANGED <<pending, entries, idx, pc>>
       ELSE /\ entries' = pending
            /\ pending' = flushSwap(pending)
            /\ idx' = 1
            /\ pc' = "flush"
  /\ batch' = IdSeq(pending)
  /\ UNCHANGED <<nextId, rafCount>>
  /\ UNCHANGED <<log, cancelled, staleCancel, cancelCalls, dropped, epoch, reg, barrier, fresh>>
  /\ UNCHANGED rendVars

\* flush(), line 37: entry.callback(now, entry.scheduledAt) is entered.
Invoke ==
  /\ pc = "flush"
  /\ idx <= Len(entries)
  /\ pc' = "cb"
  /\ log' = Append(log, [id |-> entries[idx].id,
                         callback |-> entries[idx].callback,
                         scheduledAt |-> entries[idx].scheduledAt,
                         now |-> now,
                         epoch |-> epoch])
  /\ UNCHANGED <<pending, nextId, rafId, rafQueue, rafCount, entries, idx, now>>
  /\ UNCHANGED <<batch, cancelled, staleCancel, cancelCalls, dropped, threw, epoch, reg, barrier, fresh>>
  /\ UNCHANGED rendVars

\* The running callback returns: the for loop moves to the next entry.
CbReturn ==
  /\ pc = "cb"
  /\ pc' = "flush"
  /\ idx' = idx + 1
  /\ UNCHANGED <<pending, nextId, rafId, rafQueue, rafCount, entries, now>>
  /\ UNCHANGED histVars
  /\ UNCHANGED rendVars

\* The running callback throws: flush() has no try, the exception leaves it.
CbThrow ==
  /\ pc = "cb"
  /\ pc' = "idle"
  /\ dropped' = dropped \cup {entries[i].id : i \in (idx + 1)..Len(entries)}
  /\ threw' = TRUE
  /\ entries' = <<>>
  /\ idx' = 0
  /\ UNCHANGED <<pending, nextId, rafId, rafQueue, rafCount, now>>
  /\ UNCHANGED <<log, batch, cancelled, staleCancel, cancelCalls, epoch, reg, barrier, fresh>>
  /\ UNCHANGED rendVars

\* flush(), lines 39-41: the loop is over.
FlushEnd ==
  /\ pc = "flush"
  /\ idx > Len(entries)
  /\ pc' = "idle"
  /\ entries' = <<>>
  /\ idx' = 0
  /\ IF Len(pending) > 0
       THEN SetRaf(ensureRaf(Raf))
       ELSE UNCHANGED <<rafId, rafQueue, rafCount>>
  /\ UNCHANGED <<pending, nextId, now>>
  /\ UNCHANGED histVars
  /\ UNCHANGED rendVars

SchedInit ==
  /\ pending = <<>>
  /\ nextId = 1
  /\ rafId = 0
  /\ rafQueue = {}
  /\ rafCount = 0
  /\ pc = "idle"
  /\ entries = <<>>
  /\ idx = 0
  /\ now = 0
  /\ log = <<>>
  /\ batch = <<>>
  /\ cancelled = {}
  /\ staleCancel = {}
  /\ cancelCalls = {}
  /\ dropped = {}
  /\ threw = FALSE
  /\ epoch = 0
  /\ reg = [i \in 1..(MaxId + 1) |-> [epoch |-> 0, now |-> 0, by |-> 0,
                                     callback |-> "", scheduledAt |-> <<>>]]
  /\ barrier = "none"
  /\ fresh = 0

\* ------------------------------------------------------------------------
\* Numbers: alpha values and fractional pixels
\* ------------------------------------------------------------------------
\* Alpha and opacity values are integers in units of 1 / AlphaOne, so that
\* n / 255 (hex alpha) and decimals with three places are exact.
AlphaOne == 255 * 1000

Abs(a) == IF a < 0 THEN 0 - a ELSE a

RECURSIVE Gcd(_, _)
Gcd(a, b) == IF b = 0 THEN a ELSE Gcd(b, a % b)

\* Rationals [n, d] in lowest terms with d > 0 (JavaScript numbers that are
\* not integers: device pixel ratio, scrollbar geometry).
Q(n, d) ==
  LET g == Gcd(Abs(n), Abs(d))
      s == IF d < 0 THEN 0 - 1 ELSE 1
  IN [n |-> s * (n \div g), d |-> s * (d \div g)]

QInt(k) == [n |-> k, d |-> 1]
QMul(a, b) == Q(a.n * b.n, a.d * b.d)
QDiv(a, b) == Q(a.n * b.d, a.d * b.n)
QAdd(a, b) == Q(a.n * b.d + b.n * a.d, a.d * b.d)
QSub(a, b) == Q(a.n * b.d - b.n * a.d, a.d * b.d)
QLess(a, b) == a.n * b.d < b.n * a.d
QMax(a, b) == IF QLess(a, b) THEN b ELSE a
\* Conversion to an unsigned long attribute (canvas.width): truncation.
QTrunc(a) == a.n \div a.d

\* ------------------------------------------------------------------------
\* Theme values (lib/theme.ts)
\* ------------------------------------------------------------------------
RGBA(r, g, b, a) == [r |-> r, g |-> g, b |-> b, a |-> a]

\* A JavaScript number: <<n>> is the finite number n, <<>> is NaN, <<1, 0>>
\* and <<0 - 1, 0>> are +Infinity and -Infinity.
NaN == <<>>
Infinity == <<1, 0>>
NegInfinity == <<0 - 1, 0>>
IsFinite(value) == Len(value) = 1

\* clampAlpha(value): value and result in units of 1 / AlphaOne.
clampAlphaNoUpper(value) ==
  IF ~IsFinite(value) THEN AlphaOne
  ELSE IF value[1] < 0 THEN 0
  ELSE value[1]

clampAlpha(value) ==
  IF ~IsFinite(value) THEN AlphaOne
  ELSE IF value[1] < 0 THEN 0
  ELSE IF value[1] > AlphaOne THEN AlphaOne
  ELSE value[1]

\* clampByte(value)
clampByte(value) ==
  IF ~IsFinite(value) THEN 0
  ELSE IF value[1] < 0 THEN 0
  ELSE IF value[1] > 255 THEN 255
  ELSE value[1]

\* rgbaToCss(color): the CSS colour string, as the tuple of its parts.
rgbaToCss(color) ==
  LET a == clampAlpha(<<color.a>>)
  IN IF a >= AlphaOne
       THEN <<"rgb", color.r, color.g, color.b>>
       ELSE <<"rgba", color.r, color.g, color.b, a>>

\* CanvasRenderer.rgbToCSS(r, g, b).
rgbToCSS(r, g, b) == <<"rgb", r, g, b>>

\* resolveTheme(undefined): every slot is DEFAULT_THEME's.
DefaultTheme ==
  [foreground |-> RGBA(212, 212, 212, AlphaOne),
   background |-> RGBA(30, 30, 30, AlphaOne),
   cursor |-> RGBA(255, 255, 255, AlphaOne),
   cursorAccent |-> RGBA(30, 30, 30, AlphaOne),
   selectionBackground |-> RGBA(212, 212, 212, AlphaOne),
   selectionForeground |-> <<RGBA(30, 30, 30, AlphaOne)>>,
   selectionOpacity |-> (2 * AlphaOne) \div 5]

\* A TerminalTheme a caller passes to updateTheme() or in RenderInput.theme.
LightTheme ==
  [foreground |-> RGBA(0, 0, 0, AlphaOne),
   background |-> RGBA(255, 255, 255, AlphaOne),
   cursor |-> RGBA(10, 20, 30, AlphaOne),
   cursorAccent |-> RGBA(255, 255, 255, AlphaOne),
   selectionBackground |-> RGBA(0, 0, 255, AlphaOne \div 2),
   selectionForeground |-> <<>>,
   selectionOpacity |-> AlphaOne \div 4]

Themes == {DefaultTheme, LightTheme}

\* ------------------------------------------------------------------------
\* Theme resolution (lib/theme.ts): strings are sequences of characters
\* ------------------------------------------------------------------------
DecDigits == <<"0", "1", "2", "3", "4", "5", "6", "7", "8", "9">>
LowerHex == <<"a", "b", "c", "d", "e", "f">>
UpperHex == <<"A", "B", "C", "D", "E", "F">>
Digits == {DecDigits[i] : i \in 1..10}
HexDigits == Digits \cup {LowerHex[i] : i \in 1..6} \cup {UpperHex[i] : i \in 1..6}
WhiteSpace == {" ", "\t"}

\* The value of a digit character in radix 10 or 16.
HexVal(ch) ==
  IF ch \in Digits
    THEN (CHOOSE i \in 1..10 : DecDigits[i] = ch) - 1
    ELSE 9 + (CHOOSE i \in 1..6 : LowerHex[i] = ch \/ UpperHex[i] = ch)

RECURSIVE ValueOf(_, _)
ValueOf(s, radix) ==
  IF s = <<>> THEN 0
  ELSE ValueOf(SubSeq(s, 1, Len(s) - 1), radix) * radix + HexVal(s[Len(s)])

RECURSIVE Pow10(_)
Pow10(k) == IF k = 0 THEN 1 ELSE 10 * Pow10(k - 1)

\* The first index from i on whose character is not in C (Len(s) + 1 if none).
RECURSIVE Span(_, _, _)
Span(s, i, C) == IF i <= Len(s) /\ s[i] \in C THEN Span(s, i + 1, C) ELSE i

\* The last index up to i whose character is not in C (0 if none).
RECURSIVE SpanBack(_, _, _)
SpanBack(s, i, C) == IF i >= 1 /\ s[i] \in C THEN SpanBack(s, i - 1, C) ELSE i

At(s, i, ch) == i >= 1 /\ i <= Len(s) /\ s[i] = ch

\* String.prototype.startsWith
startsWith(s, prefix) == Len(s) >= Len(prefix) /\ SubSeq(s, 1, Len(prefix)) = prefix

\* String.prototype.trim
trim(s) == SubSeq(s, Span(s, 1, WhiteSpace), SpanBack(s, Len(s), WhiteSpace))

\* Number.parseInt(s, radix), radix 10 or 16: leading white space, a sign,
\* for radix 16 a 0x prefix, then the longest run of digits of the radix;
\* NaN when that run is empty. What follows the run is ignored.
parseInt(s, radix) ==
  LET a == Span(s, 1, WhiteSpace)
      b == IF At(s, a, "+") \/ At(s, a, "-") THEN a + 1 ELSE a
      c == IF radix = 16 /\ At(s, b, "0") /\ (At(s, b + 1, "x") \/ At(s, b + 1, "X"))
             THEN b + 2 ELSE b
      d == Span(s, c, IF radix = 16 THEN HexDigits ELSE Digits)
  IN IF d = c THEN NaN
     ELSE <<(IF At(s, a, "-") THEN 0 - 1 ELSE 1) * ValueOf(SubSeq(s, c, d - 1), radix)>>

\* Number.parseFloat(s) for a string of digits and dots (all that group 4 of
\* the rgb pattern admits), in units of 1 / AlphaOne: the longest prefix
\* digits [. digits]; NaN when it has no digit.
parseFloat(s) ==
  LET a == Span(s, 1, Digits)
      b == IF At(s, a, ".") THEN Span(s, a + 1, Digits) ELSE a
      int == SubSeq(s, 1, a - 1)
      frac == SubSeq(s, a + 1, b - 1)
  IN IF int = <<>> /\ frac = <<>> THEN NaN
     ELSE <<ValueOf(int, 10) * AlphaOne
            + (ValueOf(frac, 10) * AlphaOne) \div Pow10(Len(frac))>>

\* The result of parseColor: an RGBA, null, or a TypeError thrown.
Color(r, g, b, a) == [t |-> "rgba", v |-> RGBA(r, g, b, a)]
NullColor == [t |-> "null", v |-> RGBA(0, 0, 0, 0)]
Thrown == [t |-> "TypeError", v |-> RGBA(0, 0, 0, 0)]

\* a ?? b
Coalesce(a, b) == IF a.t = "null" THEN b ELSE a

\* JavaScript values of an override's slots. "absent" is a property the
\* override object does not have.
\* s holds a string's characters, n a number (or a boolean as 1 / 0).
JsAbsent == [t |-> "absent", s |-> <<>>, n |-> <<>>]
JsUndefined == [t |-> "undefined", s |-> <<>>, n |-> <<>>]
JsNull == [t |-> "null", s |-> <<>>, n |-> <<>>]
JsString(s) == [t |-> "string", s |-> s, n |-> <<>>]
JsNumber(n) == [t |-> "number", s |-> <<>>, n |-> n]
JsBoolean(b) == [t |-> "boolean", s |-> <<>>, n |-> IF b THEN <<1>> ELSE <<0>>]

\* !value is false
Truthy(value) ==
  CASE value.t = "string" -> value.s # <<>>
    [] value.t = "number" -> value.n # NaN /\ value.n # <<0>>
    [] value.t = "boolean" -> value.n = <<1>>
    [] OTHER -> FALSE

\* parseHexColor, line 91: expand = (h) => h + h
expandPad(h) == <<"0", h>>

expand(h) == <<h, h>>

\* parseHexColor(value)
parseHexColor(value) ==
  CHOOSE res \in
    {LET short == Len(hex) = 3 \/ Len(hex) = 4
         r == IF short THEN expand(hex[1]) ELSE SubSeq(hex, 1, 2)
         g == IF short THEN expand(hex[2]) ELSE SubSeq(hex, 3, 4)
         b == IF short THEN expand(hex[3]) ELSE SubSeq(hex, 5, 6)
         a == IF Len(hex) = 4 THEN expand(hex[4])
              ELSE IF Len(hex) = 8 THEN SubSeq(hex, 7, 8)
              ELSE <<"f", "f">>
     IN IF Len(hex) \notin {3, 4, 6, 8} THEN NullColor
        ELSE CHOOSE c \in
               {IF ri = NaN \/ gi = NaN \/ bi = NaN \/ ai = NaN THEN NullColor
                ELSE Color(clampByte(ri), clampByte(gi), clampByte(bi),
                           clampAlpha(<<ai[1] * (AlphaOne \div 255)>>)) :
                ri \in {parseInt(r, 16)}, gi \in {parseInt(g, 16)},
                bi \in {parseInt(b, 16)}, ai \in {parseInt(a, 16)}} : TRUE :
     hex \in {trim(SubSeq(value, 2, Len(value)))}} : TRUE

\* \s*(\d{1,3})\s* of the rgb pattern, matched from index p.
Field(s, p) ==
  LET a == Span(s, p, WhiteSpace)
      b == Span(s, a, Digits)
  IN [ok |-> b > a /\ b - a <= 3, text |-> SubSeq(s, a, b - 1),
      next |-> Span(s, b, WhiteSpace)]

\* value.match(/^rgba?\(\s*(\d{1,3})\s*,\s*(\d{1,3})\s*,\s*(\d{1,3})\s*
\*              (?:,\s*([0-9.]+)\s*)?\)$/): <<>> for null, else the groups;
\* group 4 is <<>> when undefined.
rgbMatch(s) ==
  LET p == IF startsWith(s, <<"r", "g", "b", "a", "(">>) THEN 6
           ELSE IF startsWith(s, <<"r", "g", "b", "(">>) THEN 5
           ELSE 0
      f1 == Field(s, p)
      f2 == Field(s, f1.next + 1)
      f3 == Field(s, f2.next + 1)
      d == Span(s, f3.next + 1, WhiteSpace)
      e == Span(s, d, Digits \cup {"."})
      f == Span(s, e, WhiteSpace)
  IN IF p = 0 \/ ~f1.ok \/ ~At(s, f1.next, ",") \/ ~f2.ok \/ ~At(s, f2.next, ",") \/ ~f3.ok
       THEN <<>>
     ELSE IF At(s, f3.next, ")") /\ f3.next = Len(s)
       THEN <<[r |-> f1.text, g |-> f2.text, b |-> f3.text, a |-> <<>>]>>
     ELSE IF At(s, f3.next, ",") /\ e > d /\ At(s, f, ")") /\ f = Len(s)
       THEN <<[r |-> f1.text, g |-> f2.text, b |-> f3.text, a |-> <<SubSeq(s, d, e - 1)>>]>>
     ELSE <<>>

\* parseColor(value); a truthy value that is not a string has no startsWith
\* method, and the call throws a TypeError.
parseColor(value) ==
  IF ~Truthy(value) THEN NullColor
  ELSE IF value.t # "string" THEN Thrown
  ELSE IF startsWith(value.s, <<"#">>) THEN parseHexColor(value.s)
  ELSE
    LET m == rgbMatch(value.s)
    IN IF m = <<>> THEN NullColor
       ELSE Color(clampByte(parseInt(m[1].r, 10)),
                  clampByte(parseInt(m[1].g, 10)),
                  clampByte(parseInt(m[1].b, 10)),
                  IF m[1].a # <<>> THEN clampAlpha(parseFloat(m[1].a[1])) ELSE AlphaOne)

\* resolveColor(value, fallback)
resolveColorNoFallback(value, fallback) ==
  Coalesce(parseColor(value), Color(0, 0, 0, AlphaOne))

resolveColor(value, fallback) ==
  Coalesce(parseColor(value),
           Coalesce(parseColor(JsString(fallback)), Color(0, 0, 0, AlphaOne)))

\* resolveOptionalColor(value)
resolveOptionalColor(value) ==
  IF ~Truthy(value) \/ (value.t = "string" /\ value.s = <<"u", "n", "d", "e", "f", "i", "n", "e", "d">>)
    THEN NullColor
    ELSE parseColor(value)

DEFAULT_SELECTION_OPACITY == (2 * AlphaOne) \div 5

\* DEFAULT_THEME, the slots resolveTheme reads.
DEFAULT_THEME ==
  [foreground |-> <<"#", "d", "4", "d", "4", "d", "4">>,
   background |-> <<"#", "1", "e", "1", "e", "1", "e">>,
   cursor |-> <<"#", "f", "f", "f", "f", "f", "f">>,
   cursorAccent |-> <<"#", "1", "e", "1", "e", "1", "e">>,
   selectionBackground |-> <<"#", "d", "4", "d", "4", "d", "4">>,
   selectionForeground |-> <<"#", "1", "e", "1", "e", "1", "e">>]

\* normalizeOpacity(value): Number.isFinite is false for every value that is
\* not a number.
normalizeOpacityNoFinite(value) ==
  IF value.t \in {"absent", "undefined"} THEN DEFAULT_SELECTION_OPACITY
  ELSE IF value.t # "number" THEN DEFAULT_SELECTION_OPACITY
  ELSE clampAlpha(value.n)

normalizeOpacity(value) ==
  IF value.t \in {"absent", "undefined"} THEN DEFAULT_SELECTION_OPACITY
  ELSE IF value.t # "number" \/ ~IsFinite(value.n) THEN DEFAULT_SELECTION_OPACITY
  ELSE clampAlpha(value.n)

ColorSlots == {"foreground", "background", "cursor", "cursorAccent", "selectionBackground"}
Slots == ColorSlots \cup {"selectionForeground", "selectionOpacity"}

\* An override with no property set, and resolveTheme's view of its argument:
\* theme ?? {} for an absent argument (<<>>).
NoOverride == [k \in Slots |-> JsAbsent]
Given(override) == IF override = <<>> THEN NoOverride ELSE override[1]

\* { ...DEFAULT_THEME, ...theme }[k]: a property the override has, even with
\* the value undefined, replaces the default.
merged(override, k) ==
  IF Given(override)[k].t = "absent" THEN JsString(DEFAULT_THEME[k]) ELSE Given(override)[k]

\* resolveTheme(override): [t |-> "ok", v |-> the TerminalTheme] or the TypeError.
resolveTheme(override) ==
  CHOOSE res \in
    {IF (\E k \in ColorSlots : col[k].t = "TypeError") \/ sf.t = "TypeError"
       THEN [t |-> "TypeError", v |-> DefaultTheme]
       ELSE [t |-> "ok",
             v |-> [foreground |-> col.foreground.v,
                    background |-> col.background.v,
                    cursor |-> col.cursor.v,
                    cursorAccent |-> col.cursorAccent.v,
                    selectionBackground |-> col.selectionBackground.v,
                    selectionForeground |-> IF sf.t = "null" THEN <<>> ELSE <<sf.v>>,
                    selectionOpacity |-> normalizeOpacity(Given(override).selectionOpacity)]] :
     col \in {[k \in ColorSlots |-> resolveColor(merged(override, k), DEFAULT_THEME[k])]},
     sf \in {resolveOptionalColor(
              IF Given(override).selectionForeground.t \in {"absent", "undefined", "null"}
                THEN merged(override, "selectionForeground")
                ELSE Given(override).selectionForeground)}} : TRUE

\* ------------------------------------------------------------------------
\* CanvasRenderer: construction, attach, resize, clear
\* ------------------------------------------------------------------------
\* Canvas elements of the page. getContext("2d") returns a context for "c2d"
\* and null for "cgl", a canvas already bound to another context type.
CanvasEls == {"c2d", "cgl"}
Has2d(c) == c = "c2d"

\* measureFont(): the metrics the browser's text measurement can yield.
MetricsSet ==
  {[width |-> 10, height |-> 20, baseline |-> 16],
   [width |-> 17, height |-> 21, baseline |-> 17]}

\* options.devicePixelRatio / window.devicePixelRatio.
Dprs == {Q(1, 2), QInt(1), QInt(2)}

NotAttached == "CanvasRenderer is not attached to a canvas"
NoContext == "Failed to get 2D rendering context"

\* A freshly created or reset 2D context.
FreshContext ==
  [fillStyle |-> <<"rgb", 0, 0, 0>>, strokeStyle |-> <<"rgb", 0, 0, 0>>,
   globalAlpha |-> AlphaOne, lineWidth |-> 1, font |-> <<"", 10, "sans-serif">>,
   scale |-> QInt(1), textBaseline |-> "alphabetic", textAlign |-> "start"]

\* A draw operation: where in the source it is issued, its geometry in user
\* space, and the context state it is drawn with.
Op(kind, row, col, x, y, w, h, c) ==
  [kind |-> kind, row |-> row, col |-> col, x |-> x, y |-> y, w |-> w, h |-> h,
   style |-> IF kind \in {"underline", "strikethrough", "hyperlink", "link"}
               THEN c.strokeStyle ELSE c.fillStyle,
   alpha |-> c.globalAlpha, scale |-> c.scale, font |-> c.font, text |-> <<>>]

\* requireContext() / requireCanvas(): TRUE when they return.
requireContextAlways(cv, cx) == TRUE

requireContext(cv, cx) == ~(cx = "none" \/ cv = "none")

requireCanvasAlways(cv) == TRUE

requireCanvas(cv) == ~(cv = "none")

\* A renderer call that throws err before changing anything.
Fails(name, args, e) ==
  /\ call' = [name |-> name, args |-> args]
  /\ err' = e
  /\ ops' = <<>>
  /\ calls' = calls + 1
  /\ UNCHANGED <<canvas, ctx, devicePixelRatio, fontSize, styleVars, size, context>>

Called(name, args, o) ==
  /\ call' = [name |-> name, args |-> args]
  /\ err' = ""
  /\ ops' = o
  /\ calls' = calls + 1

\* attach(canvas)
attach(c) ==
  /\ canvas' = c
  /\ IF Has2d(c)
       THEN /\ ctx' = c
            /\ Called("attach", <<c>>, <<>>)
       ELSE /\ ctx' = ctx
            /\ call' = [name |-> "attach", args |-> <<c>>]
            /\ err' = NoContext
            /\ ops' = <<>>
            /\ calls' = calls + 1
  /\ UNCHANGED <<devicePixelRatio, fontSize, styleVars, size, context>>

\* resize(cols, rows)
resizeFillBeforeScale(cols, rows) ==
  IF ~requireCanvas(canvas) \/ ~requireContext(canvas, ctx)
    THEN Fails("resize", <<cols, rows>>, NotAttached)
    ELSE
      LET cssWidth == cols * metrics.width
          cssHeight == rows * metrics.height
          c0 == IF ctx = canvas THEN FreshContext ELSE context
          c1 == [c0 EXCEPT !.fillStyle = rgbaToCss(theme.background)]
          c2 == [c1 EXCEPT !.scale = QMul(c0.scale, devicePixelRatio),
                           !.textBaseline = "alphabetic",
                           !.textAlign = "left"]
      IN /\ size' = [size EXCEPT ![canvas] =
                       [width |-> QTrunc(QMul(QInt(cssWidth), devicePixelRatio)),
                        height |-> QTrunc(QMul(QInt(cssHeight), devicePixelRatio)),
                        styleWidth |-> cssWidth,
                        styleHeight |-> cssHeight]]
         /\ context' = c2
         /\ Called("resize", <<cols, rows>>,
                   <<Op("resizeFill", 0 - 1, 0 - 1, 0, 0, cssWidth, cssHeight, c1)>>)
         /\ UNCHANGED <<canvas, ctx, devicePixelRatio, fontSize, styleVars>>

resize(cols, rows) ==
  IF ~requireCanvas(canvas) \/ ~requireContext(canvas, ctx)
    THEN Fails("resize", <<cols, rows>>, NotAttached)
    ELSE
      LET cssWidth == cols * metrics.width
          cssHeight == rows * metrics.height
          \* assigning canvas.width resets the context of that canvas
          c0 == IF ctx = canvas THEN FreshContext ELSE context
          c1 == [c0 EXCEPT !.scale = QMul(c0.scale, devicePixelRatio),
                           !.textBaseline = "alphabetic",
                           !.textAlign = "left",
                           !.fillStyle = rgbaToCss(theme.background)]
      IN /\ size' = [size EXCEPT ![canvas] =
                       [width |-> QTrunc(QMul(QInt(cssWidth), devicePixelRatio)),
                        height |-> QTrunc(QMul(QInt(cssHeight), devicePixelRatio)),
                        styleWidth |-> cssWidth,
                        styleHeight |-> cssHeight]]
         /\ context' = c1
         /\ Called("resize", <<cols, rows>>,
                   <<Op("resizeFill", 0 - 1, 0 - 1, 0, 0, cssWidth, cssHeight, c1)>>)
         /\ UNCHANGED <<canvas, ctx, devicePixelRatio, fontSize, styleVars>>

\* clear()
clear ==
  IF ~requireContext(canvas, ctx) \/ ~requireCanvas(canvas)
    THEN Fails("clear", <<>>, NotAttached)
    ELSE
      LET c1 == [context EXCEPT !.fillStyle = rgbaToCss(theme.background)]
      IN /\ context' = c1
         /\ Called("clear", <<>>,
                   <<Op("clear", 0 - 1, 0 - 1, 0, 0, size[canvas].width, size[canvas].height, c1)>>)
         /\ UNCHANGED <<canvas, ctx, devicePixelRatio, fontSize, styleVars, size>>

\* getCanvas()
getCanvas ==
  IF ~requireCanvas(canvas)
    THEN Fails("getCanvas", <<>>, NotAttached)
    ELSE /\ Called("getCanvas", <<canvas>>, <<>>)
         /\ UNCHANGED <<canvas, ctx, devicePixelRatio, fontSize, styleVars, size, context>>

\* updateTheme(theme)
updateTheme(t) ==
  /\ theme' = t
  /\ Called("updateTheme", <<t>>, <<>>)
  /\ UNCHANGED <<canvas, ctx, devicePixelRatio, fontSize, metrics, currentSelectionRange,
                 currentHoveredLink, currentGetGraphemeString, size, context>>

\* setTheme(theme): this.theme = resolveTheme(theme); a TypeError thrown by
\* resolveTheme leaves the assignment undone.
setTheme(override) ==
  \E res \in {resolveTheme(override)} :
    IF res.t = "TypeError"
      THEN Fails("setTheme", <<override>>, "TypeError")
      ELSE /\ theme' = res.v
           /\ Called("setTheme", <<override>>, <<>>)
           /\ UNCHANGED <<canvas, ctx, devicePixelRatio, fontSize, metrics,
                          currentSelectionRange, currentHoveredLink,
                          currentGetGraphemeString, size, context>>

\* setFontSize(size): the metrics are measured again.
setFontSize(sz, m) ==
  /\ fontSize' = sz
  /\ metrics' = m
  /\ Called("setFontSize", <<sz>>, <<>>)
  /\ UNCHANGED <<canvas, ctx, devicePixelRatio, theme, currentSelectionRange,
                 currentHoveredLink, currentGetGraphemeString, size, context>>

\* ------------------------------------------------------------------------
\* CanvasRenderer.render
\* ------------------------------------------------------------------------
ROW_DIRTY == 1
ROW_HAS_SELECTION == 2
ROW_HAS_HYPERLINK == 4

FontFamily == "monospace"

RECURSIVE BitAnd(_, _)
BitAnd(a, b) ==
  IF a = 0 \/ b = 0 THEN 0
  ELSE (a % 2) * (b % 2) + 2 * BitAnd(a \div 2, b \div 2)

RECURSIVE BitOr(_, _)
BitOr(a, b) ==
  IF a = 0 THEN b
  ELSE IF b = 0 THEN a
  ELSE (IF a % 2 = 1 \/ b % 2 = 1 THEN 1 ELSE 0) + 2 * BitOr(a \div 2, b \div 2)

\* The setter of ctx.globalAlpha ignores values outside [0, 1].
SetGlobalAlpha(c, v) ==
  IF v >= 0 /\ v <= AlphaOne THEN [c EXCEPT !.globalAlpha = v] ELSE c

\* isInSelection(x, y) for currentSelectionRange = sel.
isInSelectionRect(sel, x, y) ==
  IF sel = <<>> THEN FALSE
  ELSE LET r == sel[1]
       IN y >= r.startRow /\ y <= r.endRow /\ x >= r.startCol /\ x <= r.endCol

isInSelection(sel, x, y) ==
  IF sel = <<>> THEN FALSE
  ELSE
    LET startCol == sel[1].startCol
        startRow == sel[1].startRow
        endCol == sel[1].endCol
        endRow == sel[1].endRow
    IN IF startRow = endRow
         THEN y = startRow /\ x >= startCol /\ x <= endCol
         ELSE IF y = startRow THEN x >= startCol
         ELSE IF y = endRow THEN x <= endCol
         ELSE IF y > startRow /\ y < endRow THEN TRUE
         ELSE FALSE

\* render(), lines 216-229: the rows in rowsToRender after the first loop.
\* rowFlags[y] is undefined (flags 0) past the end of the array.
needsRenderDirtyOnly(flags, forceAll) ==
  forceAll \/ BitAnd(flags, ROW_DIRTY) # 0

needsRender(flags, forceAll) ==
  forceAll \/
  BitAnd(flags, BitOr(ROW_DIRTY, BitOr(ROW_HAS_SELECTION, ROW_HAS_HYPERLINK))) # 0

RECURSIVE buildRows(_, _, _, _, _)
buildRows(y, rows, rowFlags, forceAll, acc) ==
  IF y >= rows THEN acc
  ELSE
    LET flags == IF y + 1 <= Len(rowFlags) THEN rowFlags[y + 1] ELSE 0
        add == IF needsRender(flags, forceAll)
                 THEN {y} \cup (IF y > 0 THEN {y - 1} ELSE {})
                          \cup (IF y < rows - 1 THEN {y + 1} ELSE {})
                 ELSE {}
    IN buildRows(y + 1, rows, rowFlags, forceAll, acc \cup add)

rowsToRenderNoDilation(rows, rowFlags, forceAll) ==
  {y \in 0..(rows - 1) :
     needsRender(IF y + 1 <= Len(rowFlags) THEN rowFlags[y + 1] ELSE 0, forceAll)}

rowsToRender(rows, rowFlags, forceAll) == buildRows(0, rows, rowFlags, forceAll, {})

\* renderCellBackground(cell, x, y) that ignores INVERSE.
renderCellBackgroundNoInverse(R, cell, x, y, acc) ==
  LET cellX == x * R.metrics.width
      cellY == y * R.metrics.height
      cellWidth == R.metrics.width * cell.width
      isSelected == isInSelection(R.sel, x, y)
      inverse == FALSE
      bg_r == IF inverse THEN cell.fg_r ELSE cell.bg_r
      bg_g == IF inverse THEN cell.fg_g ELSE cell.bg_g
      bg_b == IF inverse THEN cell.fg_b ELSE cell.bg_b
      isDefaultBg == bg_r = 0 /\ bg_g = 0 /\ bg_b = 0
      c1 == [acc.c EXCEPT !.fillStyle = rgbToCSS(bg_r, bg_g, bg_b)]
      a1 == IF ~isDefaultBg
              THEN [ops |-> Append(acc.ops,
                                   Op("cellBg", y, x, cellX, cellY, cellWidth,
                                      R.metrics.height, c1)),
                    c |-> c1]
              ELSE acc
      c2 == [SetGlobalAlpha(a1.c, R.theme.selectionOpacity)
               EXCEPT !.fillStyle = rgbaToCss(R.theme.selectionBackground)]
  IN IF isSelected
       THEN [ops |-> Append(a1.ops,
                            Op("selOverlay", y, x, cellX, cellY, cellWidth,
                               R.metrics.height, c2)),
             c |-> SetGlobalAlpha(c2, AlphaOne)]
       ELSE a1

\* renderCellBackground(cell, x, y); R holds the renderer fields render() has
\* just set, acc is [ops, c]: the operations issued so far and the context.
renderCellBackground(R, cell, x, y, acc) ==
  LET cellX == x * R.metrics.width
      cellY == y * R.metrics.height
      cellWidth == R.metrics.width * cell.width
      isSelected == isInSelection(R.sel, x, y)
      inverse == "INVERSE" \in cell.flags
      bg_r == IF inverse THEN cell.fg_r ELSE cell.bg_r
      bg_g == IF inverse THEN cell.fg_g ELSE cell.bg_g
      bg_b == IF inverse THEN cell.fg_b ELSE cell.bg_b
      isDefaultBg == bg_r = 0 /\ bg_g = 0 /\ bg_b = 0
      c1 == [acc.c EXCEPT !.fillStyle = rgbToCSS(bg_r, bg_g, bg_b)]
      a1 == IF ~isDefaultBg
              THEN [ops |-> Append(acc.ops,
                                   Op("cellBg", y, x, cellX, cellY, cellWidth,
                                      R.metrics.height, c1)),
                    c |-> c1]
              ELSE acc
      c2 == [SetGlobalAlpha(a1.c, R.theme.selectionOpacity)
               EXCEPT !.fillStyle = rgbaToCss(R.theme.selectionBackground)]
  IN IF isSelected
       THEN [ops |-> Append(a1.ops,
                            Op("selOverlay", y, x, cellX, cellY, cellWidth,
                               R.metrics.height, c2)),
             c |-> SetGlobalAlpha(c2, AlphaOne)]
       ELSE a1

\* A stroke from (x, y) to (x + w, y) in the current strokeStyle, 1px wide.
Stroke(kind, row, col, x, y, w, acc, style) ==
  LET c1 == [acc.c EXCEPT !.strokeStyle = style, !.lineWidth = 1]
  IN [ops |-> Append(acc.ops, Op(kind, row, col, x, y, w, 0, c1)), c |-> c1]

HoverBlue == <<"#4A90E2">>

\* A test of the rectangle between the range's corners.
isInRangeRect(range, x, y) ==
  /\ range.startY <= y /\ y <= range.endY
  /\ range.startX <= x /\ x <= range.endX

\* The interval test of lines 479-482 for the hovered link's range.
isInRange(range, x, y) ==
  \/ (y = range.startY /\ x >= range.startX /\ (y < range.endY \/ x <= range.endX))
  \/ (y > range.startY /\ y < range.endY)
  \/ (y = range.endY /\ x <= range.endX /\ (y > range.startY \/ x >= range.startX))

\* renderCellText(cell, x, y) without the reset of the alpha after the glyph.
renderCellTextNoReset(R, cell, x, y, acc) ==
  IF "INVISIBLE" \in cell.flags THEN acc
  ELSE
    LET cellX == x * R.metrics.width
        cellY == y * R.metrics.height
        cellWidth == R.metrics.width * cell.width
        isSelected == isInSelection(R.sel, x, y)
        fontStyle == (IF "ITALIC" \in cell.flags THEN "italic " ELSE "")
                       \o (IF "BOLD" \in cell.flags THEN "bold " ELSE "")
        inverse == "INVERSE" \in cell.flags
        fg_r == IF inverse THEN cell.bg_r ELSE cell.fg_r
        fg_g == IF inverse THEN cell.bg_g ELSE cell.fg_g
        fg_b == IF inverse THEN cell.bg_b ELSE cell.fg_b
        selFg == R.theme.selectionForeground
        c1 == [acc.c EXCEPT
                 !.font = <<fontStyle, R.fontSize, FontFamily>>,
                 !.fillStyle = IF isSelected /\ selFg # <<>>
                                 THEN rgbaToCss(selFg[1])
                                 ELSE rgbToCSS(fg_r, fg_g, fg_b)]
        c2 == IF "FAINT" \in cell.flags THEN SetGlobalAlpha(c1, AlphaOne \div 2) ELSE c1
        char == IF cell.grapheme_len > 0 /\ R.lookup # 0
                  THEN <<"grapheme", R.lookup, y, x>>
                  ELSE <<"codepoint", IF cell.codepoint = 0 THEN 32 ELSE cell.codepoint>>
        glyph == [Op("glyph", y, x, cellX, cellY + R.metrics.baseline, 0, 0, c2)
                    EXCEPT !.text = char]
        c3 == c2
        a3 == [ops |-> Append(acc.ops, glyph), c |-> c3]
        underlineY == cellY + R.metrics.baseline + 2
        a4 == IF "UNDERLINE" \in cell.flags
                THEN Stroke("underline", y, x, cellX, underlineY, cellWidth, a3, a3.c.fillStyle)
                ELSE a3
        a5 == IF "STRIKETHROUGH" \in cell.flags
                THEN Stroke("strikethrough", y, x, cellX,
                            QAdd(QInt(cellY), Q(R.metrics.height, 2)), cellWidth,
                            a4, a4.c.fillStyle)
                ELSE a4
        hoveredHyperlinkId == IF R.hover = <<>> THEN 0 ELSE R.hover[1].hyperlinkId
        a6 == IF cell.hyperlink_id > 0 /\ cell.hyperlink_id = hoveredHyperlinkId
                THEN Stroke("hyperlink", y, x, cellX, underlineY, cellWidth, a5, HoverBlue)
                ELSE a5
    IN IF R.hover # <<>> /\ R.hover[1].range # <<>> /\ isInRange(R.hover[1].range[1], x, y)
         THEN Stroke("link", y, x, cellX, underlineY, cellWidth, a6, HoverBlue)
         ELSE a6

\* renderCellText(cell, x, y)
renderCellText(R, cell, x, y, acc) ==
  IF "INVISIBLE" \in cell.flags THEN acc
  ELSE
    LET cellX == x * R.metrics.width
        cellY == y * R.metrics.height
        cellWidth == R.metrics.width * cell.width
        isSelected == isInSelection(R.sel, x, y)
        fontStyle == (IF "ITALIC" \in cell.flags THEN "italic " ELSE "")
                       \o (IF "BOLD" \in cell.flags THEN "bold " ELSE "")
        inverse == "INVERSE" \in cell.flags
        fg_r == IF inverse THEN cell.bg_r ELSE cell.fg_r
        fg_g == IF inverse THEN cell.bg_g ELSE cell.fg_g
        fg_b == IF inverse THEN cell.bg_b ELSE cell.fg_b
        selFg == R.theme.selectionForeground
        c1 == [acc.c EXCEPT
                 !.font = <<fontStyle, R.fontSize, FontFamily>>,
                 !.fillStyle = IF isSelected /\ selFg # <<>>
                                 THEN rgbaToCss(selFg[1])
                                 ELSE rgbToCSS(fg_r, fg_g, fg_b)]
        c2 == IF "FAINT" \in cell.flags THEN SetGlobalAlpha(c1, AlphaOne \div 2) ELSE c1
        char == IF cell.grapheme_len > 0 /\ R.lookup # 0
                  THEN <<"grapheme", R.lookup, y, x>>
                  ELSE <<"codepoint", IF cell.codepoint = 0 THEN 32 ELSE cell.codepoint>>
        glyph == [Op("glyph", y, x, cellX, cellY + R.metrics.baseline, 0, 0, c2)
                    EXCEPT !.text = char]
        c3 == IF "FAINT" \in cell.flags THEN SetGlobalAlpha(c2, AlphaOne) ELSE c2
        a3 == [ops |-> Append(acc.ops, glyph), c |-> c3]
        underlineY == cellY + R.metrics.baseline + 2
        a4 == IF "UNDERLINE" \in cell.flags
                THEN Stroke("underline", y, x, cellX, underlineY, cellWidth, a3, a3.c.fillStyle)
                ELSE a3
        a5 == IF "STRIKETHROUGH" \in cell.flags
                THEN Stroke("strikethrough", y, x, cellX,
                            QAdd(QInt(cellY), Q(R.metrics.height, 2)), cellWidth,
                            a4, a4.c.fillStyle)
                ELSE a4
        hoveredHyperlinkId == IF R.hover = <<>> THEN 0 ELSE R.hover[1].hyperlinkId
        a6 == IF cell.hyperlink_id > 0 /\ cell.hyperlink_id = hoveredHyperlinkId
                THEN Stroke("hyperlink", y, x, cellX, underlineY, cellWidth, a5, HoverBlue)
                ELSE a5
    IN IF R.hover # <<>> /\ R.hover[1].range # <<>> /\ isInRange(R.hover[1].range[1], x, y)
         THEN Stroke("link", y, x, cellX, underlineY, cellWidth, a6, HoverBlue)
         ELSE a6

\* renderLine(viewportCells, row, cols): the two loops over the columns.
\* viewportCells[i] is undefined past the end of the array.
RECURSIVE cellPass(_, _, _, _, _, _, _)
cellPass(pass, R, viewportCells, row, cols, x, acc) ==
  IF x >= cols THEN acc
  ELSE
    LET i == row * cols + x + 1
    \* the cell's operations are computed (next) before the loop moves on
    IN CHOOSE r \in
         {cellPass(pass, R, viewportCells, row, cols, x + 1, next) :
            next \in {IF i > Len(viewportCells) THEN acc
                      ELSE IF viewportCells[i].width = 0 THEN acc
                      ELSE IF pass = 1
                        THEN renderCellBackground(R, viewportCells[i], x, row, acc)
                      ELSE renderCellText(R, viewportCells[i], x, row, acc)}} : TRUE

\* renderLine with one loop that draws each cell's background and then its
\* text before it moves to the next cell.
RECURSIVE cellsInterleaved(_, _, _, _, _, _)
cellsInterleaved(R, viewportCells, row, cols, x, acc) ==
  IF x >= cols THEN acc
  ELSE
    LET i == row * cols + x + 1
    IN CHOOSE r \in
         {cellsInterleaved(R, viewportCells, row, cols, x + 1, next) :
            next \in {IF i > Len(viewportCells) THEN acc
                      ELSE IF viewportCells[i].width = 0 THEN acc
                      ELSE renderCellText(R, viewportCells[i], x, row,
                             renderCellBackground(R, viewportCells[i], x, row, acc))}} : TRUE

renderLineInterleaved(R, viewportCells, row, cols, acc) ==
  LET lineY == row * R.metrics.height
      c1 == [acc.c EXCEPT !.fillStyle = rgbaToCss(R.theme.background)]
      a1 == [ops |-> Append(acc.ops,
                            Op("rowClear", row, 0 - 1, 0, lineY,
                               cols * R.metrics.width, R.metrics.height, c1)),
             c |-> c1]
  IN CHOOSE r \in {cellsInterleaved(R, viewportCells, row, cols, 0, b1) : b1 \in {a1}} : TRUE

renderLine(R, viewportCells, row, cols, acc) ==
  LET lineY == row * R.metrics.height
      c1 == [acc.c EXCEPT !.fillStyle = rgbaToCss(R.theme.background)]
      a1 == [ops |-> Append(acc.ops,
                            Op("rowClear", row, 0 - 1, 0, lineY,
                               cols * R.metrics.width, R.metrics.height, c1)),
             c |-> c1]
  \* pass 1 runs to its end (a2) before pass 2 starts
  IN CHOOSE r \in
       {cellPass(2, R, viewportCells, row, cols, 0, a2) :
          a2 \in {cellPass(1, R, viewportCells, row, cols, 0, b1) : b1 \in {a1}}} : TRUE

\* render(), lines 238-241: the second loop over the rows.
RECURSIVE renderRows(_, _, _, _, _, _, _)
renderRows(R, viewportCells, rowSet, rows, cols, y, acc) ==
  IF y >= rows THEN acc
  ELSE
    \* the row's operations are computed (next) before the loop moves on
    CHOOSE r \in
      {renderRows(R, viewportCells, rowSet, rows, cols, y + 1, next) :
         next \in {IF y \in rowSet THEN renderLine(R, viewportCells, y, cols, acc)
                   ELSE acc}} : TRUE

Max(a, b) == IF a > b THEN a ELSE b

\* Math.floor(v * 0.15) for a non-negative integer v.
Floor15(v) == (v * 15) \div 100

\* renderCursor(x, y, style)
renderCursor(R, x, y, style, acc) ==
  LET cursorX == x * R.metrics.width
      cursorY == y * R.metrics.height
      c1 == [acc.c EXCEPT !.fillStyle = rgbaToCss(R.theme.cursor)]
      underlineHeight == Max(2, Floor15(R.metrics.height))
      barWidth == Max(2, Floor15(R.metrics.width))
      op == IF style = "block"
              THEN <<Op("cursor", y, x, cursorX, cursorY, R.metrics.width, R.metrics.height, c1)>>
            ELSE IF style = "underline"
              THEN <<Op("cursor", y, x, cursorX, cursorY + R.metrics.height - underlineHeight,
                        R.metrics.width, underlineHeight, c1)>>
            ELSE IF style = "bar"
              THEN <<Op("cursor", y, x, cursorX, cursorY, barWidth, R.metrics.height, c1)>>
            ELSE <<>>
  IN [ops |-> acc.ops \o op, c |-> c1]

\* renderScrollbar(viewportY, scrollbackLength, visibleRows, opacity);
\* geometry is fractional, opacity is in units of 1 / AlphaOne.
renderScrollbar(R, viewportY, scrollbackLength, visibleRows, opacity, acc) ==
  LET canvasHeight == QDiv(QInt(R.canvasHeight), R.dpr)
      canvasWidth == QDiv(QInt(R.canvasWidth), R.dpr)
      scrollbarWidth == 8
      scrollbarX == QSub(canvasWidth, QInt(scrollbarWidth + 4))
      scrollbarPadding == 4
      scrollbarTrackHeight == QSub(canvasHeight, QInt(scrollbarPadding * 2))
      c1 == [acc.c EXCEPT !.fillStyle = rgbaToCss(R.theme.background)]
      a1 == [ops |-> Append(acc.ops,
                            Op("scrollbarClear", 0 - 1, 0 - 1, QSub(scrollbarX, QInt(2)),
                               QInt(0), QInt(scrollbarWidth + 6), canvasHeight, c1)),
             c |-> c1]
      totalLines == scrollbackLength + visibleRows
      thumbHeight == QMax(QInt(20), QMul(Q(visibleRows, totalLines), scrollbarTrackHeight))
      scrollPosition == Q(viewportY, scrollbackLength)
      thumbY == QAdd(QInt(scrollbarPadding),
                     QMul(QSub(scrollbarTrackHeight, thumbHeight),
                          QSub(QInt(1), scrollPosition)))
      c2 == [a1.c EXCEPT !.fillStyle = <<"rgba", 128, 128, 128, Q(opacity, 10)>>]
      baseOpacity == IF viewportY > 0 THEN Q(1, 2) ELSE Q(3, 10)
      c3 == [c2 EXCEPT !.fillStyle = <<"rgba", 128, 128, 128, QMul(baseOpacity, QInt(opacity))>>]
  IN IF opacity <= 0 \/ scrollbackLength = 0 THEN a1
     ELSE [ops |-> a1.ops \o
                   <<Op("scrollbarTrack", 0 - 1, 0 - 1, scrollbarX, QInt(scrollbarPadding),
                        QInt(scrollbarWidth), scrollbarTrackHeight, c2),
                     Op("scrollbarThumb", 0 - 1, 0 - 1, scrollbarX, thumbY,
                        QInt(scrollbarWidth), thumbHeight, c3)>>,
           c |-> c3]

\* render(input) that clears the flags of the rows as it consumes them.
renderClearingFlags(input) ==
  IF ~requireContext(canvas, ctx)
    THEN Fails("render", <<input>>, NotAttached)
    ELSE
      \E R \in {[theme |-> input.theme, sel |-> input.selectionRange,
                  hover |-> input.hoveredLink, lookup |-> input.getGraphemeString,
                  metrics |-> metrics, fontSize |-> fontSize, dpr |-> devicePixelRatio,
                  canvasWidth |-> size[canvas].width,
                  canvasHeight |-> size[canvas].height]} :
      \E rowSet \in {rowsToRender(input.rows, input.rowFlags, input.dirtyState = "FULL")} :
      \E a1 \in {renderRows(R, input.viewportCells, rowSet, input.rows, input.cols, 0,
                            [ops |-> <<>>, c |-> context])} :
      \E a2 \in {IF input.cursorVisible
                   THEN renderCursor(R, input.cursorX, input.cursorY, input.cursorStyle, a1)
                   ELSE a1} :
      \E a3 \in {IF input.scrollbarOpacity > 0 /\ input.scrollbackLength > 0
                   THEN renderScrollbar(R, input.viewportY, input.scrollbackLength,
                                        input.rows, input.scrollbarOpacity, a2)
                   ELSE a2} :
         /\ theme' = input.theme
         /\ currentSelectionRange' = input.selectionRange
         /\ currentHoveredLink' = input.hoveredLink
         /\ currentGetGraphemeString' = input.getGraphemeString
         /\ context' = a3.c
         /\ Called("render", <<[input EXCEPT !.rowFlags = [y \in DOMAIN input.rowFlags |-> 0]]>>,
                   a3.ops)
         /\ UNCHANGED <<canvas, ctx, devicePixelRatio, fontSize, metrics, size>>

\* render(input) that draws with input.theme and keeps this.theme.
renderKeepingTheme(input) ==
  IF ~requireContext(canvas, ctx)
    THEN Fails("render", <<input>>, NotAttached)
    ELSE
      \E R \in {[theme |-> input.theme, sel |-> input.selectionRange,
                  hover |-> input.hoveredLink, lookup |-> input.getGraphemeString,
                  metrics |-> metrics, fontSize |-> fontSize, dpr |-> devicePixelRatio,
                  canvasWidth |-> size[canvas].width,
                  canvasHeight |-> size[canvas].height]} :
      \E rowSet \in {rowsToRender(input.rows, input.rowFlags, input.dirtyState = "FULL")} :
      \E a1 \in {renderRows(R, input.viewportCells, rowSet, input.rows, input.cols, 0,
                            [ops |-> <<>>, c |-> context])} :
      \E a2 \in {IF input.cursorVisible
                   THEN renderCursor(R, input.cursorX, input.cursorY, input.cursorStyle, a1)
                   ELSE a1} :
      \E a3 \in {IF input.scrollbarOpacity > 0 /\ input.scrollbackLength > 0
                   THEN renderScrollbar(R, input.viewportY, input.scrollbackLength,
                                        input.rows, input.scrollbarOpacity, a2)
                   ELSE a2} :
         /\ theme' = theme
         /\ currentSelectionRange' = input.selectionRange
         /\ currentHoveredLink' = input.hoveredLink
         /\ currentGetGraphemeString' = input.getGraphemeString
         /\ context' = a3.c
         /\ Called("render", <<input>>, a3.ops)
         /\ UNCHANGED <<canvas, ctx, devicePixelRatio, fontSize, metrics, size>>

\* render(input)
render(input) ==
  IF ~requireContext(canvas, ctx)
    THEN Fails("render", <<input>>, NotAttached)
    ELSE
      \E R \in {[theme |-> input.theme, sel |-> input.selectionRange,
                  hover |-> input.hoveredLink, lookup |-> input.getGraphemeString,
                  metrics |-> metrics, fontSize |-> fontSize, dpr |-> devicePixelRatio,
                  canvasWidth |-> size[canvas].width,
                  canvasHeight |-> size[canvas].height]} :
      \E rowSet \in {rowsToRender(input.rows, input.rowFlags, input.dirtyState = "FULL")} :
      \E a1 \in {renderRows(R, input.viewportCells, rowSet, input.rows, input.cols, 0,
                            [ops |-> <<>>, c |-> context])} :
      \E a2 \in {IF input.cursorVisible
                   THEN renderCursor(R, input.cursorX, input.cursorY, input.cursorStyle, a1)
                   ELSE a1} :
      \E a3 \in {IF input.scrollbarOpacity > 0 /\ input.scrollbackLength > 0
                   THEN renderScrollbar(R, input.viewportY, input.scrollbackLength,
                                        input.rows, input.scrollbarOpacity, a2)
                   ELSE a2} :
         /\ theme' = input.theme
         /\ currentSelectionRange' = input.selectionRange
         /\ currentHoveredLink' = input.hoveredLink
         /\ currentGetGraphemeString' = input.getGraphemeString
         /\ context' = a3.c
         /\ Called("render", <<input>>, a3.ops)
         /\ UNCHANGED <<canvas, ctx, devicePixelRatio, fontSize, metrics, size>>

\* ------------------------------------------------------------------------
\* Render inputs
\* ------------------------------------------------------------------------
MaxRows == 3        \* rows of a render input
MaxCols == 3        \* columns of a render input
MaxCalls == 4       \* renderer calls in one behaviour of RSpec

PlainCell ==
  [codepoint |-> 65, fg_r |-> 212, fg_g |-> 212, fg_b |-> 212,
   bg_r |-> 0, bg_g |-> 0, bg_b |-> 0, flags |-> {}, width |-> 1,
   hyperlink_id |-> 0, grapheme_len |-> 0]

ColouredCell == [PlainCell EXCEPT !.bg_r = 200, !.flags = {"INVERSE"}]

Grid(cols, rows, cell) == [i \in 1..(cols * rows) |-> cell]

BaseInput ==
  [cols |-> 2, rows |-> 2, viewportCells |-> Grid(2, 2, PlainCell),
   rowFlags |-> <<0, 0>>, dirtyState |-> "NONE",
   selectionRange |-> <<>>, hoveredLink |-> <<>>,
   cursorX |-> 0, cursorY |-> 0, cursorVisible |-> FALSE, cursorStyle |-> "block",
   getGraphemeString |-> 1, theme |-> DefaultTheme,
   viewportY |-> 0, scrollbackLength |-> 0, scrollbarOpacity |-> 0]

\* Row flag bytes: every combination of the three bits, and a bit outside them.
FlagValues == 0..(2 * ROW_HAS_HYPERLINK)

\* Inputs that vary rows, rowFlags and the dirty state; rowFlags may be
\* shorter than rows.
DirtyInputs ==
  {[BaseInput EXCEPT !.cols = 1, !.rows = n, !.viewportCells = Grid(1, n, PlainCell),
                     !.rowFlags = f, !.dirtyState = d] :
     n \in {MaxRows}, f \in UNION {[1..k -> FlagValues] : k \in {0, MaxRows}},
     d \in {"NONE", "PARTIAL", "FULL"}}
  \cup
  {[BaseInput EXCEPT !.cols = 1, !.rows = n, !.viewportCells = Grid(1, n, PlainCell),
                     !.rowFlags = [i \in 1..n |-> IF i = k THEN b ELSE 0],
                     !.dirtyState = d] :
     n \in 0..MaxRows, k \in 1..MaxRows,
     b \in {ROW_DIRTY, ROW_HAS_SELECTION, ROW_HAS_HYPERLINK}, d \in {"PARTIAL", "FULL"}}

\* Selection ranges over the grid, normalized or not, and rows outside it.
SelRanges ==
  [startCol : 0..(MaxCols - 1), startRow : 0..(MaxRows - 1),
   endCol : 0..(MaxCols - 1), endRow : 0..(MaxRows - 1)]

SelInputs ==
  {[BaseInput EXCEPT !.cols = MaxCols, !.rows = MaxRows,
                     !.viewportCells = Grid(MaxCols, MaxRows, PlainCell),
                     !.dirtyState = "FULL", !.selectionRange = s] :
     s \in {<<>>} \cup {<<r>> : r \in SelRanges}}

\* Inputs for the life-cycle specification.
LifeInputs ==
  {[BaseInput EXCEPT !.theme = t, !.selectionRange = s, !.getGraphemeString = g,
                     !.rowFlags = <<0, ROW_DIRTY>>] :
     t \in Themes,
     s \in {<<>>, <<[startCol |-> 0, startRow |-> 0, endCol |-> 1, endRow |-> 0]>>},
     g \in {1, 2}}

\* Cells of every kind renderLine distinguishes: default and own background,
\* decorations with a hyperlink, a spacer, an invisible, a faint wide and a
\* faint underlined cell.
DecoratedCell ==
  [PlainCell EXCEPT !.flags = {"UNDERLINE", "STRIKETHROUGH"}, !.hyperlink_id = 7, !.bg_g = 9]
SpacerCell == [PlainCell EXCEPT !.width = 0, !.bg_r = 5]
InvisibleCell == [PlainCell EXCEPT !.flags = {"INVISIBLE"}, !.bg_b = 3]
FaintWideCell == [PlainCell EXCEPT !.flags = {"FAINT"}, !.width = 2, !.grapheme_len = 2]
FaintUnderlinedCell == [PlainCell EXCEPT !.flags = {"FAINT", "UNDERLINE"}]
CellKinds ==
  {PlainCell, ColouredCell, DecoratedCell, SpacerCell, InvisibleCell, FaintWideCell,
   FaintUnderlinedCell}

\* Two rows: the first of any cells, the second plain; with and without a
\* selection and a hovered link over the first row.
LineInputs ==
  {[BaseInput EXCEPT !.cols = MaxCols, !.rows = 2,
                     !.viewportCells = line \o Grid(MaxCols, 1, PlainCell),
                     !.rowFlags = <<ROW_DIRTY, 0>>, !.dirtyState = "PARTIAL",
                     !.selectionRange = s, !.hoveredLink = h] :
     line \in [1..MaxCols -> CellKinds],
     s \in {<<>>, <<[startCol |-> 1, startRow |-> 0, endCol |-> 0, endRow |-> 1]>>},
     h \in {<<>>, <<[hyperlinkId |-> 7,
                     range |-> <<[startX |-> 0, startY |-> 0, endX |-> 1, endY |-> 0]>>]>>}}

\* Frames that vary the cursor and the scrollbar over a plain 2x2 grid.
CursorStyles == {"block", "underline", "bar"}
CursorCases ==
  {[x |-> 0, y |-> 0, visible |-> FALSE, style |-> "block"]} \cup
  {[x |-> p, y |-> p, visible |-> TRUE, style |-> cs] : p \in {0, 1}, cs \in CursorStyles}
ScrollbarCases ==
  {sc \in [viewportY : {0, 5}, scrollbackLength : {0, 5},
           scrollbarOpacity : {0, AlphaOne \div 2, AlphaOne}] :
     /\ sc.viewportY <= sc.scrollbackLength
     /\ sc.scrollbarOpacity = AlphaOne \div 2 => sc.scrollbackLength = 5 /\ sc.viewportY = 0}
OverlayInputs ==
  {[BaseInput EXCEPT !.rowFlags = <<0, f>>, !.dirtyState = "PARTIAL",
                     !.cursorX = cu.x, !.cursorY = cu.y, !.cursorVisible = cu.visible,
                     !.cursorStyle = cu.style, !.viewportY = sc.viewportY,
                     !.scrollbackLength = sc.scrollbackLength,
                     !.scrollbarOpacity = sc.scrollbarOpacity] :
     f \in {0, ROW_DIRTY}, cu \in CursorCases, sc \in ScrollbarCases}

\* One row of two cells, plain, inverse or faint, with the first cell selected
\* or no selection; the theme is the renderer's current one.
GlyphCells == {PlainCell, ColouredCell, FaintWideCell}
SelectedGlyphInputs ==
  {[BaseInput EXCEPT !.cols = 2, !.rows = 1, !.viewportCells = line,
                     !.rowFlags = <<ROW_DIRTY>>, !.dirtyState = "PARTIAL",
                     !.selectionRange = s] :
     line \in [1..2 -> GlyphCells],
     s \in {<<>>, <<[startCol |-> 0, startRow |-> 0, endCol |-> 0, endRow |-> 0]>>}}

\* Hovered plain-text links over the grid, every span normalized or not, over
\* plain cells and over a grid with a spacer and an invisible cell.
HoverRanges ==
  [startX : 0..(MaxCols - 1), startY : 0..(MaxRows - 1),
   endX : 0..(MaxCols - 1), endY : 0..(MaxRows - 1)]

HoverGrids ==
  {Grid(MaxCols, MaxRows, PlainCell),
   [Grid(MaxCols, MaxRows, PlainCell) EXCEPT ![1] = SpacerCell, ![MaxCols + 1] = InvisibleCell]}

HoverInputs ==
  {[BaseInput EXCEPT !.cols = MaxCols, !.rows = MaxRows, !.viewportCells = g,
                     !.dirtyState = "FULL",
                     !.hoveredLink = <<[hyperlinkId |-> 0, range |-> <<r>>]>>] :
     g \in HoverGrids, r \in HoverRanges}

\* Cells by what renderCellBackground reads: foreground and background zero
\* or not, INVERSE or not, spacer, single or wide; rows of two of them, the
\* first selected or no selection.
BackgroundCells ==
  {[PlainCell EXCEPT !.fg_r = f, !.fg_g = f, !.fg_b = 0, !.bg_r = 0, !.bg_g = 0, !.bg_b = b,
                     !.flags = fl, !.width = w] :
     f \in {0, 212}, b \in {0, 90}, fl \in {{}, {"INVERSE"}}, w \in {0, 1, 2}}

BackgroundInputs ==
  {[BaseInput EXCEPT !.cols = 2, !.rows = 1, !.viewportCells = line,
                     !.rowFlags = <<ROW_DIRTY>>, !.dirtyState = "PARTIAL",
                     !.selectionRange = s] :
     line \in [1..2 -> BackgroundCells],
     s \in {<<>>, <<[startCol |-> 0, startRow |-> 0, endCol |-> 0, endRow |-> 0]>>}}

\* ------------------------------------------------------------------------
\* Theme overrides
\* ------------------------------------------------------------------------
MaxHexLen == 8      \* longest body of a '#' string among the overrides

\* All strings of length n over the alphabet A.
Strings(A, n) == [1..n -> A]

\* The override that sets all five colour slots to the value v.
AllColors(v) == [k \in Slots |-> IF k \in ColorSlots THEN v ELSE JsAbsent]

\* The override that sets slot k to the value v.
OneSlot(k, v) == [NoOverride EXCEPT ![k] = v]

\* Values a loosely typed caller may put in a slot.
LooseValues ==
  {JsUndefined, JsNull, JsString(<<>>), JsNumber(<<0>>), JsNumber(<<5>>), JsNumber(NaN),
   JsBoolean(TRUE), JsBoolean(FALSE), JsString(<<"r", "e", "d">>),
   JsString(<<"#", "f", "f", "f">>), JsString(<<" ", "#", "f", "f", "f", " ">>),
   JsString(<<"#", "f", " ", "f">>), JsString(<<" ">>)}

LooseOverrides ==
  {<<>>, <<NoOverride>>} \cup {<<OneSlot(k, v)>> : k \in Slots, v \in LooseValues}

\* '#' strings over a hex digit and a letter that is no hex digit.
HashStrings ==
  UNION {{<<"#">> \o body : body \in Strings({"f", "g"}, n)} : n \in 0..MaxHexLen}

HashOverrides == {<<AllColors(JsString(str))>> : str \in HashStrings}

\* Hex shorthand next to its doubled form: '#abc' in foreground, '#aabbcc' in
\* background, '#abcd' in cursor and '#aabbccdd' in cursorAccent.
Shorthand(a, b, c, d) ==
  [NoOverride EXCEPT
     !.foreground = JsString(<<"#", a, b, c>>),
     !.background = JsString(<<"#", a, a, b, b, c, c>>),
     !.cursor = JsString(<<"#", a, b, c, d>>),
     !.cursorAccent = JsString(<<"#", a, a, b, b, c, c, d, d>>)]

ShorthandOverrides ==
  UNION {{<<Shorthand(a, b, c, "8")>>, <<Shorthand(b, a, c, "8")>>,
          <<Shorthand(b, c, a, "8")>>, <<Shorthand(b, b, c, a)>>} :
           a \in HexDigits, b \in {"0", "a"}, c \in {"9", "F"}}

\* rgb() / rgba() strings built from the texts of their components; val is
\* the number the text denotes (alpha in units of 1 / AlphaOne).
ByteTexts ==
  {[text |-> <<"0">>, val |-> 0], [text |-> <<"7">>, val |-> 7],
   [text |-> <<"0", "7">>, val |-> 7], [text |-> <<"2", "5", "5">>, val |-> 255],
   [text |-> <<"2", "5", "6">>, val |-> 256], [text |-> <<"9", "9", "9">>, val |-> 999],
   [text |-> <<"1", "0", "0", "0">>, val |-> 1000], [text |-> <<"-", "1">>, val |-> 0 - 1]}

AlphaTexts ==
  {[text |-> <<"0">>, val |-> 0], [text |-> <<"0", ".", "5">>, val |-> AlphaOne \div 2],
   [text |-> <<".", "2", "5">>, val |-> AlphaOne \div 4],
   [text |-> <<"0", ".", "1", "2", "5">>, val |-> AlphaOne \div 8],
   [text |-> <<"1">>, val |-> AlphaOne], [text |-> <<"1", ".", "0">>, val |-> AlphaOne],
   [text |-> <<"1", ".", "5">>, val |-> (3 * AlphaOne) \div 2],
   [text |-> <<"2">>, val |-> 2 * AlphaOne],
   [text |-> <<"-", "0", ".", "5">>, val |-> 0 - (AlphaOne \div 2)]}

\* fn(r,g,b) or fn(r,g,b,a), with sp after each comma; a is <<>> when the
\* alpha is omitted.
RgbString(fn, r, g, b, a, sp) ==
  fn \o <<"(">> \o r.text \o <<",">> \o sp \o g.text \o <<",">> \o sp \o b.text
     \o (IF a = <<>> THEN <<>> ELSE <<",">> \o sp \o a[1].text) \o <<")">>

RgbFns == {<<"r", "g", "b">>, <<"r", "g", "b", "a">>}
RgbSpacings == {<<>>, <<" ">>}
RgbAlphas == {<<>>} \cup {<<a>> : a \in AlphaTexts}

RgbOverrides ==
  {<<AllColors(JsString(RgbString(fn, r, g, b, a, sp)))>> :
     fn \in RgbFns, r \in ByteTexts, g \in {[text |-> <<"2", "0">>, val |-> 20]},
     b \in ByteTexts, a \in RgbAlphas, sp \in RgbSpacings}

\* selectionOpacity values: absent, not finite, and finite ones below, in and
\* above [0, 1] (in units of 1 / AlphaOne).
OpacityValues ==
  {JsAbsent, JsUndefined, JsNumber(NaN), JsNumber(Infinity), JsNumber(NegInfinity)}
  \cup {JsNumber(<<n>>) : n \in {0 - AlphaOne, 0 - 1, 0, 1, AlphaOne \div 2,
                                DEFAULT_SELECTION_OPACITY, AlphaOne - 1, AlphaOne,
                                AlphaOne + 1, 2 * AlphaOne}}

OpacityOverrides ==
  {<<[OneSlot("selectionOpacity", v) EXCEPT !.background = c]>> :
     v \in OpacityValues, c \in {JsAbsent, JsString(<<"#", "f", "f", "f">>)}}

\* ------------------------------------------------------------------------
\* Line workloads (lib/workloads.ts): strings are sequences of characters
\* ------------------------------------------------------------------------
MaxLines == 3       \* largest lineCount of a workload

\* String(i) for an integer i >= 0.
RECURSIVE DecimalString(_)
DecimalString(i) ==
  IF i < 10 THEN <<DecDigits[i + 1]>> ELSE DecimalString(i \div 10) \o <<DecDigits[(i % 10) + 1]>>

\* text.padStart(n, ch) / text.padEnd(n, ch)
padStart(text, n, ch) == [k \in 1..(IF n > Len(text) THEN n - Len(text) ELSE 0) |-> ch] \o text
padEnd(text, n, ch) == text \o [k \in 1..(IF n > Len(text) THEN n - Len(text) ELSE 0) |-> ch]

\* padLine(text, width), for width >= 0
padLine(text, width) ==
  IF Len(text) >= width THEN [k \in 1..width |-> text[k]] ELSE padEnd(text, width, " ")

\* buildNumberedLines(count, width, prefix)
buildNumberedLines(count, width, prefix) ==
  [i \in 1..count |-> padLine(prefix \o padStart(DecimalString(i), 5, "0"), width)]

\* lines.join("\n")
RECURSIVE join(_)
join(lines) ==
  IF lines = <<>> THEN <<>>
  ELSE IF Len(lines) = 1 THEN lines[1]
  ELSE lines[1] \o <<"\n">> \o join(Tail(lines))

\* lines.slice(i, j), 0-based, for 0 <= i <= j
slice(lines, i, j) ==
  [k \in 1..((IF j > Len(lines) THEN Len(lines) ELSE j) - i) |-> lines[i + k]]

\* The for loop of chunkLines from index i on.
RECURSIVE chunksFrom(_, _, _)
chunksFrom(lines, linesPerChunk, i) ==
  IF i >= Len(lines) THEN <<>>
  ELSE <<join(slice(lines, i, i + linesPerChunk)) \o <<"\n">>>>
         \o chunksFrom(lines, linesPerChunk, i + linesPerChunk)

\* chunkLines that answers a chunk size it cannot use with no chunks.
chunkLinesLenient(lines, linesPerChunk) ==
  IF linesPerChunk <= 0 THEN [t |-> "ok", v |-> <<>>]
  ELSE [t |-> "ok", v |-> chunksFrom(lines, linesPerChunk, 0)]

\* chunkLines(lines, linesPerChunk): [t |-> "ok", v |-> chunks] or the Error.
chunkLines(lines, linesPerChunk) ==
  IF linesPerChunk <= 0 THEN [t |-> "Error", v |-> <<>>]
  ELSE [t |-> "ok", v |-> chunksFrom(lines, linesPerChunk, 0)]

ChunkSizeError == "linesPerChunk must be > 0"

\* createLineWorkload(spec); the call record holds the spec and, when the
\* call returns, the workload.
createLineWorkload(spec) ==
  LET prefix == IF spec.labelPrefix = <<>> THEN <<"l", "i", "n", "e", " ">>
                ELSE spec.labelPrefix[1]
      lines == buildNumberedLines(spec.lineCount, spec.cols, prefix)
  IN \E chunks \in {chunkLines(lines, spec.linesPerChunk)} :
       IF chunks.t = "Error"
         THEN Fails("createLineWorkload", <<spec>>, ChunkSizeError)
         ELSE /\ Called("createLineWorkload",
                        <<spec, [name |-> spec.name, description |-> spec.description,
                                 cols |-> spec.cols, rows |-> spec.rows,
                                 chunks |-> chunks.v]>>, <<>>)
              /\ UNCHANGED <<canvas, ctx, devicePixelRatio, fontSize, styleVars, size, context>>

\* Workload specs: line counts from none, chunk sizes on both sides of 0,
\* lines shorter and longer than their label, with and without a prefix.
LineWorkloadSpecs ==
  [name : {"w"}, description : {"d"}, cols : {0, 4, 12}, rows : {24},
   lineCount : (0 - 1)..MaxLines, linesPerChunk : (0 - 2)..MaxLines,
   labelPrefix : {<<>>, <<<<"p">>>>}]

\* ------------------------------------------------------------------------
\* Initial states
\* ------------------------------------------------------------------------
\* new CanvasRenderer(options): not attached.
RendInit(dpr, m) ==
  /\ canvas = "none"
  /\ ctx = "none"
  /\ theme = DefaultTheme
  /\ devicePixelRatio = dpr
  /\ metrics = m
  /\ fontSize = 15
  /\ currentSelectionRange = <<>>
  /\ currentHoveredLink = <<>>
  /\ currentGetGraphemeString = 0
  /\ size = [c \in CanvasEls |-> [width |-> 300, height |-> 150,
                                  styleWidth |-> 0, styleHeight |-> 0]]
  /\ context = FreshContext
  /\ call = [name |-> "new", args |-> <<>>]
  /\ err = ""
  /\ ops = <<>>
  /\ calls = 0

\* new CanvasRenderer(canvas): the constructor attaches (lines 90-92).
\* first is the call record the behaviour starts from.
RendInitAttached(first) ==
  /\ canvas = "c2d"
  /\ ctx = "c2d"
  /\ theme = DefaultTheme
  /\ devicePixelRatio = QInt(1)
  /\ metrics = [width |-> 10, height |-> 20, baseline |-> 16]
  /\ fontSize = 15
  /\ currentSelectionRange = <<>>
  /\ currentHoveredLink = <<>>
  /\ currentGetGraphemeString = 0
  /\ size = [c \in CanvasEls |-> [width |-> 300, height |-> 150,
                                  styleWidth |-> 0, styleHeight |-> 0]]
  /\ context = FreshContext
  /\ call = first
  /\ err = ""
  /\ ops = <<>>
  /\ calls = 0

Init == SchedInit /\ RendInitAttached([name |-> "new", args |-> <<"c2d">>])

RInit == SchedInit /\ \E dpr \in Dprs, m \in MetricsSet : RendInit(dpr, m)

\* ------------------------------------------------------------------------
\* The caller's resize barrier
\* ------------------------------------------------------------------------
InvokedIds == {log[i].id : i \in 1..Len(log)}

\* The caller has cancelled every handle it was given whose callback it has
\* not seen run, and then resizes.
BarrierResize(cols, rows) ==
  /\ pc = "idle"
  /\ barrier = "none"
  /\ epoch < MaxResize
  /\ nextId <= MaxId
  /\ \A h \in 1..(nextId - 1) : h \in cancelCalls \/ h \in InvokedIds
  /\ resize(cols, rows)
  /\ epoch' = epoch + 1
  /\ barrier' = "resized"
  /\ fresh' = 0
  /\ UNCHANGED schedVars
  /\ UNCHANGED <<log, batch, cancelled, staleCancel, cancelCalls, dropped, threw, reg>>

\* ... and schedules a fresh render.
BarrierSchedule(cb, at) ==
  /\ pc = "idle"
  /\ barrier = "resized"
  /\ schedule(cb, at)
  /\ fresh' = nextId
  /\ barrier' = "none"

\* ------------------------------------------------------------------------
\* Specifications
\* ------------------------------------------------------------------------
Next ==
  \/ \E cb \in Callbacks, at \in Stamps : Schedule(cb, at)
  \/ \E id \in 1..(MaxId + 1) : Cancel(id)
  \/ \E r \in rafQueue : BoundaryFire(r)
  \/ Invoke
  \/ CbReturn
  \/ CbThrow
  \/ FlushEnd
  \/ \E cols \in {2}, rows \in {2} : BarrierResize(cols, rows)
  \/ \E cb \in Callbacks, at \in Stamps : BarrierSchedule(cb, at)

Spec == Init /\ [][Next]_vars

\* The scheduler alone, with fairness: every armed boundary request eventually
\* fires, and every callback that is entered ends.
FairNext ==
  \/ \E cb \in Callbacks : Schedule(cb, <<>>)
  \/ \E id \in 1..(MaxId + 1) : Cancel(id)
  \/ \E r \in rafQueue : BoundaryFire(r)
  \/ Invoke
  \/ CbReturn
  \/ CbThrow
  \/ FlushEnd

FairSpec ==
  /\ Init
  /\ [][FairNext]_vars
  /\ WF_vars(\E r \in rafQueue : BoundaryFire(r))
  /\ WF_vars(Invoke)
  /\ WF_vars(CbReturn)
  /\ WF_vars(FlushEnd)

Attach(c) == calls < MaxCalls /\ attach(c) /\ UNCHANGED <<schedVars, histVars>>
Resize(cols, rows) == calls < MaxCalls /\ resize(cols, rows) /\ UNCHANGED <<schedVars, histVars>>
Render(input) == calls < MaxCalls /\ render(input) /\ UNCHANGED <<schedVars, histVars>>
Clear == calls < MaxCalls /\ clear /\ UNCHANGED <<schedVars, histVars>>
GetCanvas == calls < MaxCalls /\ getCanvas /\ UNCHANGED <<schedVars, histVars>>
UpdateTheme(t) == calls < MaxCalls /\ updateTheme(t) /\ UNCHANGED <<schedVars, histVars>>
SetFontSize(sz, m) == calls < MaxCalls /\ setFontSize(sz, m) /\ UNCHANGED <<schedVars, histVars>>
SetTheme(o) == calls < MaxCalls /\ setTheme(o) /\ UNCHANGED <<schedVars, histVars>>

\* Overrides for the life-cycle specification: none, a white background, and
\* a number where a colour string belongs.
LifeOverrides ==
  {<<>>, <<OneSlot("background", JsString(<<"#", "f", "f", "f">>))>>,
   <<OneSlot("foreground", JsNumber(<<5>>))>>}

RNext ==
  \/ \E c \in CanvasEls : Attach(c)
  \/ \E cols \in {2}, rows \in {1, 2} : Resize(cols, rows)
  \/ \E input \in LifeInputs : Render(input)
  \/ Clear
  \/ GetCanvas
  \/ \E t \in Themes : UpdateTheme(t)
  \/ \E m \in MetricsSet : SetFontSize(20, m)
  \/ \E o \in LifeOverrides : SetTheme(o)

RSpec == RInit /\ [][RNext]_vars

\* render() as a function of its input: the initial state draws the input,
\* the action applies render() to it on an attached renderer.
DirtyInit ==
  SchedInit /\ \E input \in DirtyInputs : RendInitAttached([name |-> "input", args |-> <<input>>])

RenderDirty ==
  /\ call.name = "input"
  /\ render(call.args[1])
  /\ UNCHANGED <<schedVars, histVars>>

DirtySpec == DirtyInit /\ [][RenderDirty]_vars

SelInit ==
  SchedInit /\ \E input \in SelInputs : RendInitAttached([name |-> "input", args |-> <<input>>])

RenderSelection ==
  /\ call.name = "input"
  /\ render(call.args[1])
  /\ UNCHANGED <<schedVars, histVars>>

SelSpec == SelInit /\ [][RenderSelection]_vars

\* resolveTheme as a function of the override: the initial state draws the
\* override, the action applies setTheme to it.
OverrideInputs ==
  LooseOverrides \cup HashOverrides \cup ShorthandOverrides \cup RgbOverrides
    \cup OpacityOverrides

ThemeInit ==
  SchedInit /\ \E o \in OverrideInputs : RendInitAttached([name |-> "input", args |-> <<o>>])

SetThemeInput ==
  /\ call.name = "input"
  /\ setTheme(call.args[1])
  /\ UNCHANGED <<schedVars, histVars>>

ThemeSpec == ThemeInit /\ [][SetThemeInput]_vars

\* renderLine and its passes over a row of cells of every kind.
LineInit ==
  SchedInit /\ \E input \in LineInputs : RendInitAttached([name |-> "input", args |-> <<input>>])

RenderLineInput ==
  /\ call.name = "input"
  /\ render(call.args[1])
  /\ UNCHANGED <<schedVars, histVars>>

LineSpec == LineInit /\ [][RenderLineInput]_vars

\* Successive frames on an attached renderer whose font is remeasured
\* between them: the overlays (cursor, scrollbar) of each frame.
OverlayInit == SchedInit /\ RendInitAttached([name |-> "new", args |-> <<>>])

OverlayNext ==
  \/ \E input \in OverlayInputs : Render(input)
  \/ \E m \in MetricsSet : SetFontSize(20, m)

OverlaySpec == OverlayInit /\ [][OverlayNext]_vars

\* setTheme(override) followed by a frame drawn with the resolved theme, as
\* the owning widget passes it in RenderInput.theme.
ThemedInit ==
  SchedInit /\ \E o \in LooseOverrides : RendInitAttached([name |-> "input", args |-> <<o>>])

RenderResolved ==
  /\ call.name = "setTheme"
  /\ \E input \in SelectedGlyphInputs : render([input EXCEPT !.theme = theme])
  /\ UNCHANGED <<schedVars, histVars>>

ThemedNext == SetThemeInput \/ RenderResolved

ThemedSpec == ThemedInit /\ [][ThemedNext]_vars

\* createLineWorkload as a function of its spec.
WorkloadInit ==
  SchedInit /\ \E spec \in LineWorkloadSpecs :
                 RendInitAttached([name |-> "input", args |-> <<spec>>])

CreateLineWorkload ==
  /\ call.name = "input"
  /\ createLineWorkload(call.args[1])
  /\ UNCHANGED <<schedVars, histVars>>

WorkloadSpec == WorkloadInit /\ [][CreateLineWorkload]_vars

\* render() of a frame with a hovered plain-text link.
HoverInit ==
  SchedInit /\ \E input \in HoverInputs : RendInitAttached([name |-> "input", args |-> <<input>>])

RenderHover ==
  /\ call.name = "input"
  /\ render(call.args[1])
  /\ UNCHANGED <<schedVars, histVars>>

HoverSpec == HoverInit /\ [][RenderHover]_vars

\* render() of a row of cells of every background case.
BackgroundInit ==
  SchedInit /\ \E input \in BackgroundInputs :
                 RendInitAttached([name |-> "input", args |-> <<input>>])

RenderBackground ==
  /\ call.name = "input"
  /\ render(call.args[1])
  /\ UNCHANGED <<schedVars, histVars>>

BackgroundSpec == BackgroundInit /\ [][RenderBackground]_vars

\* ------------------------------------------------------------------------
\* Properties of the scheduler
\* ------------------------------------------------------------------------
Issued == 1..(nextId - 1)

\* The ids invoked by flush number k, in invocation order.
Segment(k) == IdSeq(SelectSeq(log, LAMBDA e : e.now = k))

RECURSIVE SortedSeq(_)
SortedSeq(S) ==
  IF S = {} THEN <<>>
  ELSE LET m == CHOOSE x \in S : \A y \in S : x <= y
       IN <<m>> \o SortedSeq(S \ {m})

Increasing(q) == \A i, j \in 1..Len(q) : i < j => q[i] < q[j]

\* Ids that a boundary has swapped out of pending.
Swapped == InvokedIds \cup Ids(entries) \cup dropped

\* C1 (as stated): while no flush is running a non-empty pending set has
\* exactly one outstanding requestAnimationFrame request, and once the flush
\* of a boundary has ended, every callback that was pending when it fired has
\* been invoked, in the order of the schedule() calls.
C1_AllInvokedInOrder ==
  /\ (pc = "idle" /\ pending # <<>>) => Cardinality(rafQueue) = 1
  /\ (pc = "idle" /\ now > 0) => (Segment(now) = batch /\ Increasing(batch))

\* The part of C1 that holds: one request per batch, and a flush in which no
\* callback throws invokes its whole batch in registration order.
C1_CompletedFlush ==
  /\ (pc = "idle" /\ pending # <<>>) => Cardinality(rafQueue) = 1
  /\ (pc = "idle" /\ now > 0 /\ ~threw) => (Segment(now) = batch /\ Increasing(batch))

\* C2: at most one requestAnimationFrame request is outstanding, in every
\* state, flushes and callbacks included.
C2_AtMostOneRequest == Cardinality(rafQueue) <= 1

C2_Witness ==
  /\ pc = "cb"
  /\ Cardinality(rafQueue) = 1
  /\ \E h \in Issued : reg[h].by # 0
  /\ cancelCalls # {}
  /\ now >= 2

\* C3: an entry cancelled while pending is never invoked, and pending always
\* holds exactly the issued entries that were neither cancelled while pending
\* nor swapped out by a boundary, unchanged and in registration order; so a
\* cancel of another, fired, cancelled or never issued handle removes nothing.
C3_CancelRemovesOnlyItsEntry ==
  /\ cancelled \cap Swapped = {}
  /\ pending = [i \in 1..Len(SortedSeq(Issued \ (cancelled \cup Swapped))) |->
                  LET h == SortedSeq(Issued \ (cancelled \cup Swapped))[i]
                  IN [id |-> h, callback |-> reg[h].callback,
                      scheduledAt |-> reg[h].scheduledAt]]

C3_Witness ==
  /\ pc = "idle"
  /\ cancelled # {}
  /\ Len(pending) >= 1
  /\ \E h \in cancelled : \E i \in 1..Len(pending) : pending[i].id > h
  /\ \E h \in cancelCalls : h \in InvokedIds

\* C4 (as stated): a cancel() issued by a callback for an entry of the batch
\* being flushed removes nothing, and that entry is invoked in the same flush.
C4_NoCancelOnceFlushBegan ==
  /\ staleCancel \cap cancelled = {}
  /\ pc = "idle" => staleCancel \subseteq InvokedIds

\* The part of C4 that holds: such a cancel() has no effect, and the entry is
\* invoked unless a callback of the batch throws before its turn.
C4_UnlessThrown ==
  /\ staleCancel \cap cancelled = {}
  /\ pc = "idle" => staleCancel \subseteq (InvokedIds \cup dropped)

\* C5: a callback registered while a flush is running is not part of that
\* flush; it is invoked only by the flush of a later boundary, so a callback
\* that reschedules itself runs after the boundary that ran its parent.
C5_NewWorkNextFrame ==
  /\ \A i \in 1..Len(log) : reg[log[i].id].now < log[i].now
  /\ \A h \in Ids(entries) : reg[h].now < now
  /\ \A i, j \in 1..Len(log) :
       reg[log[j].id].by = log[i].id => log[i].now < log[j].now

C5_Witness ==
  \E i, j \in 1..Len(log) :
    /\ reg[log[j].id].by = log[i].id
    /\ log[j].now = log[i].now + 1
    /\ Len(batch) = 1

\* C6: under FairSpec (armed requests fire, callbacks end) every callback
\* that is pending is eventually invoked, unless it is cancelled or a callback
\* throws; and outside a flush a non-empty pending set has its request armed.
C6_EventuallyInvoked ==
  /\ \A h \in 1..MaxId :
       (h \in Ids(pending)) ~> (h \in InvokedIds \/ h \in cancelled \/ dropped # {} \/ threw)
  /\ [](pc = "idle" /\ pending # <<>> => rafId # 0 /\ rafQueue = {rafId})

C6_Witness ==
  /\ pc = "idle"
  /\ dropped = {}
  /\ \E i \in 1..Len(log) : reg[log[i].id].by # 0
  /\ Len(log) = MaxId

\* C7: under the caller's barrier (cancel every handle, resize, schedule a
\* fresh render) no callback registered before a resize is invoked after it,
\* and the fresh render is invoked by the first boundary after its
\* registration unless it is cancelled.
C7_ResizeBarrier ==
  /\ \A i \in 1..Len(log) : reg[log[i].id].epoch = log[i].epoch
  /\ (fresh # 0 /\ fresh \notin cancelled) =>
       \/ fresh \in Ids(pending) /\ rafQueue = {rafId} /\ now = reg[fresh].now
       \/ fresh \in Ids(entries) /\ now = reg[fresh].now + 1
       \/ \E i \in 1..Len(log) : log[i].id = fresh /\ log[i].now = reg[fresh].now + 1

C7_Witness ==
  /\ epoch >= 1
  /\ fresh \in InvokedIds
  /\ \E h \in cancelled : reg[h].epoch = 0
  /\ \E i \in 1..Len(log) : log[i].epoch = 0

\* C28: a callback that throws in the middle of a flush does not stop it:
\* the remaining callbacks of the batch are still invoked, and the error is
\* surfaced only when the whole batch has been invoked.
C28_BatchSurvivesThrow ==
  threw => (Segment(now) = batch /\ dropped = {})

\* What flush() does: the exception leaves it at once; the callbacks invoked
\* are those of the batch up to the one that threw, the rest is dropped.
ThrowEndsFlush ==
  threw =>
    /\ pc = "idle"
    /\ Len(Segment(now)) <= Len(batch)
    /\ Segment(now) = SubSeq(batch, 1, Len(Segment(now)))
    /\ \A i \in (Len(Segment(now)) + 1)..Len(batch) : batch[i] \in dropped

\* C29: no pending callback is stranded. Whenever no flush is running and
\* pending is not empty, a boundary request is armed, whatever schedule,
\* cancel and boundary firings came before and whether callbacks scheduled,
\* cancelled or threw.
C29_NoStrandedCallback ==
  (pc = "idle" /\ pending # <<>>) => (rafId # 0 /\ rafId \in rafQueue)

C29_Witness ==
  /\ pc = "idle"
  /\ threw
  /\ dropped # {}
  /\ pending # <<>>
  /\ \E i \in 1..Len(pending) : reg[pending[i].id].by # 0
  /\ rafId \in rafQueue

\* C30: each schedule() returns a handle larger than every handle returned
\* before, for a new entry at the end of pending; a callback is invoked at
\* most once, with the scheduledAt value it was scheduled with and with the
\* boundary timestamp of its batch (checked at every step that invokes a
\* callback or starts a batch); and a cancel() removes from pending at
\* most the entry of the handle it was called with, so a stale handle never
\* removes an entry registered later.
C30_HandlesAndArguments ==
  [][/\ (nextId' # nextId \/ Len(pending') > Len(pending)) =>
          /\ nextId' = nextId + 1
          /\ \A h \in Issued : h < nextId
          /\ nextId \notin (Ids(pending) \cup Swapped \cup cancelled)
          /\ pending' = Append(pending, [id |-> nextId, callback |-> reg'[nextId].callback,
                                         scheduledAt |-> reg'[nextId].scheduledAt])
          /\ \A h \in Issued : reg'[h] = reg[h]
     /\ (log' # log \/ batch' # batch) =>
          /\ \A i, j \in 1..Len(log') : log'[i].id = log'[j].id => i = j
          /\ \A i \in 1..Len(log') :
               /\ log'[i].id \in Issued
               /\ log'[i].scheduledAt = reg[log'[i].id].scheduledAt
               /\ log'[i].callback = reg[log'[i].id].callback
               /\ log'[i].id \in {batch'[k] : k \in 1..Len(batch')} => log'[i].now = now'
     /\ (nextId' = nextId /\ pc' = pc /\ pending' # pending) =>
          \E h \in cancelCalls' : pending' = MapDelete(pending, h)]_vars

C30_Witness ==
  /\ Len(log) >= 2
  /\ log[1].now = 1
  /\ log[1].scheduledAt = <<1>>
  /\ log[2].now = 2
  /\ log[2].scheduledAt = <<>>
  /\ reg[log[2].id].by = log[1].id
  /\ \E h \in cancelCalls : h \in InvokedIds
  /\ pending # <<>>

\* ------------------------------------------------------------------------
\* Properties of the renderer
\* ------------------------------------------------------------------------
DrawCalls == {"resize", "render", "clear", "getCanvas"}

Repainted == {ops[i].row : i \in {j \in 1..Len(ops) : ops[j].kind = "rowClear"}}

\* Row k of the input has one of the three bits set.
Flagged(input, k) ==
  /\ k + 1 <= Len(input.rowFlags)
  /\ \E b \in {ROW_DIRTY, ROW_HAS_SELECTION, ROW_HAS_HYPERLINK} :
       (input.rowFlags[k + 1] \div b) % 2 = 1

\* C9: render() repaints every row when the dirty state is FULL; otherwise
\* exactly the flagged rows and the rows directly above and below a flagged
\* row, within [0, rows); each of them once.
C9_RepaintSet ==
  (call.name = "render" /\ err = "") =>
    LET input == call.args[1]
        all == 0..(input.rows - 1)
    IN /\ Repainted =
            IF input.dirtyState = "FULL" THEN all
            ELSE {r \in all : \E k \in all :
                    Flagged(input, k) /\ (r = k \/ r = k - 1 \/ r = k + 1)}
       /\ \A i, j \in 1..Len(ops) :
            (ops[i].kind = "rowClear" /\ ops[j].kind = "rowClear" /\ ops[i].row = ops[j].row)
              => i = j

C9_Witness ==
  /\ call.name = "render"
  /\ call.args[1].dirtyState = "PARTIAL"
  /\ call.args[1].rows >= 3
  /\ Len(call.args[1].rowFlags) = call.args[1].rows
  /\ call.args[1].rowFlags[1] = ROW_HAS_HYPERLINK
  /\ \A k \in 2..Len(call.args[1].rowFlags) : call.args[1].rowFlags[k] = 0
  /\ Repainted = {0, 1}

\* The cells render() drew a selection overlay for.
Overlaid == {<<ops[i].col, ops[i].row>> : i \in {j \in 1..Len(ops) : ops[j].kind = "selOverlay"}}

Normalized(r) == r.startRow < r.endRow \/ (r.startRow = r.endRow /\ r.startCol <= r.endCol)

\* C10: with a normalized selection range a cell is drawn as selected iff it
\* is in the row span (first row from startCol, last row up to endCol,
\* interior rows whole; a single row from startCol to endCol); with no
\* range no cell is.
C10_SelectionSpan ==
  (call.name = "render" /\ err = "") =>
    LET input == call.args[1]
        sel == input.selectionRange
    IN /\ sel = <<>> => Overlaid = {}
       /\ (sel # <<>> /\ Normalized(sel[1])) =>
            \A col \in 0..(input.cols - 1), row \in 0..(input.rows - 1) :
              <<col, row>> \in Overlaid <=>
                \/ /\ sel[1].startRow = sel[1].endRow
                   /\ row = sel[1].startRow
                   /\ sel[1].startCol <= col
                   /\ col <= sel[1].endCol
                \/ /\ sel[1].startRow < sel[1].endRow
                   /\ \/ row = sel[1].startRow /\ col >= sel[1].startCol
                      \/ row = sel[1].endRow /\ col <= sel[1].endCol
                      \/ sel[1].startRow < row /\ row < sel[1].endRow

C10_Witness ==
  /\ call.name = "render"
  /\ call.args[1].selectionRange =
       <<[startCol |-> 2, startRow |-> 0, endCol |-> 0, endRow |-> 2]>>
  /\ <<1, 1>> \in Overlaid
  /\ <<2, 0>> \in Overlaid
  /\ <<0, 0>> \notin Overlaid
  /\ <<1, 2>> \notin Overlaid

\* ------------------------------------------------------------------------
\* Properties of theme resolution
\* ------------------------------------------------------------------------
\* The override a setTheme call was given: <<>> when absent.
OverrideOf == call.args[1]

IsByte(v) == v \in 0..255
IsRGBA(c) == IsByte(c.r) /\ IsByte(c.g) /\ IsByte(c.b) /\ c.a \in 0..AlphaOne

\* The resolved theme is fully populated.
Populated(t) ==
  /\ \A k \in ColorSlots : IsRGBA(t[k])
  /\ t.selectionForeground # <<>> => IsRGBA(t.selectionForeground[1])
  /\ t.selectionOpacity \in 0..AlphaOne

\* C11 (as stated): for every override, loosely typed slot values included,
\* resolveTheme returns without an error and the resolved theme has all five
\* colours populated with an RGBA and a numeric selectionOpacity.
C11_ResolveThemeTotal ==
  call.name = "setTheme" => (err = "" /\ Populated(theme))

\* The part of C11 that holds: resolveTheme returns a populated theme whenever
\* no colour slot holds a truthy value that is not a string.
C11_TotalOnStrings ==
  (call.name = "setTheme" /\
   \A k \in Slots \ {"selectionOpacity"} :
     Given(OverrideOf)[k].t = "string" \/ ~Truthy(Given(OverrideOf)[k]))
    => (err = "" /\ Populated(theme))

\* '#' followed by exactly 3, 4, 6 or 8 hexadecimal digits.
WellFormedHex(str) ==
  /\ Len(str) \in {4, 5, 7, 9}
  /\ str[1] = "#"
  /\ \A i \in 2..Len(str) : str[i] \in HexDigits

\* C12 (as stated, for strings without white space that do not begin with
\* "rgb"): an override string that is not '#' followed by 3, 4, 6 or 8
\* hexadecimal digits resolves, in each of the five colour slots, to the
\* default of that slot.
C12_UnparseableIsDefault ==
  (call.name = "setTheme" /\
   \A k \in ColorSlots :
     /\ Given(OverrideOf)[k].t = "string"
     /\ ~WellFormedHex(Given(OverrideOf)[k].s)
     /\ \A i \in 1..Len(Given(OverrideOf)[k].s) : Given(OverrideOf)[k].s[i] \notin WhiteSpace
     /\ ~startsWith(Given(OverrideOf)[k].s, <<"r", "g", "b">>))
    => (err = "" /\ \A k \in ColorSlots : theme[k] = DefaultTheme[k])
\* The override is a shorthand next to its doubled form.
IsShorthand(o) ==
  /\ \A k \in {"foreground", "background", "cursor", "cursorAccent"} : o[k].t = "string"
  /\ Len(o.foreground.s) = 4
  /\ Len(o.cursor.s) = 5
  /\ SubSeq(o.cursor.s, 1, 4) = o.foreground.s
  /\ o.background.s = <<"#">> \o [i \in 1..6 |-> o.foreground.s[1 + (i + 1) \div 2]]
  /\ o.cursorAccent.s = <<"#">> \o [i \in 1..8 |-> o.cursor.s[1 + (i + 1) \div 2]]
  /\ \A i \in 2..5 : o.cursor.s[i] \in HexDigits

\* C13: for all hexadecimal digits a, b, c, d, '#abc' resolves to the same
\* RGBA as '#aabbcc' and '#abcd' to the same RGBA as '#aabbccdd'; each colour
\* byte is 17 times its digit, and the 3- and 6-digit forms have alpha 1.
C13_ShorthandDoubling ==
  (call.name = "setTheme" /\ IsShorthand(Given(OverrideOf))) =>
    /\ err = ""
    /\ theme.foreground = theme.background
    /\ theme.cursor = theme.cursorAccent
    /\ theme.foreground.a = AlphaOne
    /\ theme.foreground.r = 17 * HexVal(Given(OverrideOf).foreground.s[2])
    /\ theme.foreground.g = 17 * HexVal(Given(OverrideOf).foreground.s[3])
    /\ theme.foreground.b = 17 * HexVal(Given(OverrideOf).foreground.s[4])
    /\ theme.cursor.a = 17 * HexVal(Given(OverrideOf).cursor.s[5]) * (AlphaOne \div 255)
    /\ [theme.cursor EXCEPT !.a = AlphaOne] = theme.foreground

C13_Witness ==
  /\ call.name = "setTheme"
  /\ IsShorthand(Given(OverrideOf))
  /\ Given(OverrideOf).cursor.s = <<"#", "a", "B", "9", "8">>
  /\ theme.background = RGBA(170, 187, 153, AlphaOne)
  /\ theme.cursorAccent = RGBA(170, 187, 153, 136 * (AlphaOne \div 255))

\* The number v clamped to [lo, hi].
Clamp(v, lo, hi) == IF v < lo THEN lo ELSE IF v > hi THEN hi ELSE v

\* The colour the claim gives rgb()/rgba() notation with these components.
RgbExpected(r, g, b, a) ==
  RGBA(Clamp(r.val, 0, 255), Clamp(g.val, 0, 255), Clamp(b.val, 0, 255),
       IF a = <<>> THEN AlphaOne ELSE Clamp(a[1].val, 0, AlphaOne))

\* The setTheme call resolved this string in all five colour slots.
ResolvedString(str) ==
  /\ call.name = "setTheme"
  /\ \A k \in ColorSlots : Given(OverrideOf)[k].t = "string" /\ Given(OverrideOf)[k].s = str

\* C14 (as stated): rgb()/rgba() components in range resolve to themselves,
\* alpha 1 when omitted; out-of-range components are clamped, not rejected:
\* bytes to [0, 255], alpha to [0, 1].
C14_RgbClamped ==
  \A fn \in RgbFns, r \in ByteTexts, g \in {[text |-> <<"2", "0">>, val |-> 20]},
     b \in ByteTexts, a \in RgbAlphas, sp \in RgbSpacings :
    ResolvedString(RgbString(fn, r, g, b, a, sp)) =>
      (err = "" /\ \A k \in ColorSlots : theme[k] = RgbExpected(r, g, b, a))

\* The part of C14 that holds: so it is for bytes written with one to three
\* digits and an alpha written without a sign.
C14_ClampedWhenMatched ==
  \A fn \in RgbFns, r \in ByteTexts, g \in {[text |-> <<"2", "0">>, val |-> 20]},
     b \in ByteTexts, a \in RgbAlphas, sp \in RgbSpacings :
    (/\ ResolvedString(RgbString(fn, r, g, b, a, sp))
     /\ r.val \in 0..999 /\ b.val \in 0..999
     /\ (a # <<>> => a[1].val >= 0)) =>
      (err = "" /\ \A k \in ColorSlots : theme[k] = RgbExpected(r, g, b, a))
IntegerPartOf(p, q) == p * q.d <= q.n /\ q.n < (p + 1) * q.d

\* The rectangle (0, 0, w, h) of user space, drawn at the given scale, covers
\* a backing store of width by height device pixels.
Covers(w, h, scale, width, height) ==
  /\ ~QLess(QMul(QInt(w), scale), QInt(width))
  /\ ~QLess(QMul(QInt(h), scale), QInt(height))

\* C16: a resize(cols, rows) that returns has set the backing store to
\* cols*cellWidth*dpr by rows*cellHeight*dpr (as whole pixels) and the CSS
\* size to cols*cellWidth by rows*cellHeight; its only draw operation, issued
\* after the reallocation and rescale, fills (0,0)-(cols*cellWidth,
\* rows*cellHeight) with the theme background, and on the attached canvas
\* that fill is drawn at scale dpr and covers the whole backing store.
C16_ResizeRepaints ==
  (call.name = "resize" /\ err = "") =>
    LET cols == call.args[1]
        rows == call.args[2]
    IN /\ IntegerPartOf(size[canvas].width,
                        QMul(QInt(cols * metrics.width), devicePixelRatio))
       /\ IntegerPartOf(size[canvas].height,
                        QMul(QInt(rows * metrics.height), devicePixelRatio))
       /\ size[canvas].styleWidth = cols * metrics.width
       /\ size[canvas].styleHeight = rows * metrics.height
       /\ Len(ops) = 1
       /\ ops[1].kind = "resizeFill"
       /\ <<ops[1].x, ops[1].y, ops[1].w, ops[1].h>>
            = <<0, 0, cols * metrics.width, rows * metrics.height>>
       /\ ops[1].style = rgbaToCss(theme.background)
       /\ ctx = canvas =>
            /\ ops[1].scale = devicePixelRatio
            /\ context.scale = devicePixelRatio
            /\ Covers(ops[1].w, ops[1].h, ops[1].scale,
                      size[canvas].width, size[canvas].height)

C16_Witness ==
  /\ call = [name |-> "resize", args |-> <<2, 1>>]
  /\ err = ""
  /\ devicePixelRatio = Q(1, 2)
  /\ metrics.height = 21
  /\ size[canvas].height = 10
  /\ theme = LightTheme
  /\ ops[1].style = <<"rgb", 255, 255, 255>>

\* C17 (as stated): a clear() on an attached and resized renderer fills, in
\* the theme background, a rectangle that covers the whole visible area
\* cols*cellWidth by rows*cellHeight, for every device pixel ratio.
C17_ClearCoversSurface ==
  (call.name = "clear" /\ err = "" /\ ctx = canvas /\ size[canvas].styleWidth > 0) =>
    /\ Len(ops) = 1
    /\ ops[1].style = rgbaToCss(theme.background)
    /\ <<ops[1].x, ops[1].y>> = <<0, 0>>
    /\ ops[1].w >= size[canvas].styleWidth
    /\ ops[1].h >= size[canvas].styleHeight

\* The part of C17 that holds: so it is when the device pixel ratio is at
\* least 1.
C17_CoversWhenNotBelowOne ==
  (call.name = "clear" /\ err = "" /\ ctx = canvas /\ size[canvas].styleWidth > 0
   /\ ~QLess(devicePixelRatio, QInt(1))) =>
    /\ Len(ops) = 1
    /\ ops[1].style = rgbaToCss(theme.background)
    /\ <<ops[1].x, ops[1].y>> = <<0, 0>>
    /\ ops[1].w >= size[canvas].styleWidth
    /\ ops[1].h >= size[canvas].styleHeight
BackgroundKinds == {"cellBg", "selOverlay"}
TextKinds == {"glyph", "underline", "strikethrough", "hyperlink", "link"}

\* The indices in ops of the operations of row y's repaint.
RowOps(y) == {i \in 1..Len(ops) : ops[i].row = y /\ ops[i].kind \in
                                   {"rowClear"} \cup BackgroundKinds \cup TextKinds}

\* C18: in each repainted row the row clear, in the theme background, comes
\* first, and once, then every
\* cell-background and selection-overlay fill, and only then glyphs and
\* decorations: no background fill of the row follows a glyph or decoration
\* of that row.
C18_RowPassOrder ==
  call.name = "render" =>
    \A y \in Repainted :
      /\ \A i \in RowOps(y) :
           /\ ops[i].kind = "rowClear" <=> (\A j \in RowOps(y) : i <= j)
           /\ ops[i].kind = "rowClear" => ops[i].style = rgbaToCss(theme.background)
      /\ \A i, j \in RowOps(y) :
           (ops[i].kind \in TextKinds /\ ops[j].kind \in BackgroundKinds) => j < i

C18_Witness ==
  /\ call.name = "render"
  /\ \E i, j, k, l \in RowOps(0) :
       /\ i < j /\ j < k /\ k < l
       /\ ops[i].kind = "selOverlay" /\ ops[i].col = 1
       /\ ops[j].kind = "cellBg" /\ ops[j].col = 2
       /\ ops[k].kind = "glyph" /\ ops[k].col = 0
       /\ ops[l].kind = "underline" /\ ops[l].col = 1

\* ------------------------------------------------------------------------
\* Properties of the overlays
\* ------------------------------------------------------------------------
OpsOf(kind) == {i \in 1..Len(ops) : ops[i].kind = kind}

\* The frame asks for a scrollbar: there is scrollback and the opacity is
\* positive.
ScrollbarShown(input) == input.scrollbackLength > 0 /\ input.scrollbarOpacity > 0

\* C19: every render() call clears the scrollbar area to the theme
\* background, also when scrollbarOpacity or scrollbackLength is 0, so a
\* frame that follows one that drew the thumb clears the area whatever its
\* opacity; the track and the thumb are drawn only when both are positive.
C19_ScrollbarAreaAlwaysCleared ==
  [][(call'.name = "render" /\ err' = "") =>
       /\ OpsOf("scrollbarThumb") # {} =>
            \E i \in 1..Len(ops') :
              /\ ops'[i].kind = "scrollbarClear"
              /\ ops'[i].style = rgbaToCss(theme'.background)
       /\ \A i \in 1..Len(ops') :
            ops'[i].kind \in {"scrollbarTrack", "scrollbarThumb"} =>
              ScrollbarShown(call'.args[1])]_vars

\* What render() does: it clears the area, once and before the track and the
\* thumb, exactly in the frames that draw them; other frames leave the area
\* as the frame before left it.
C19_ClearedOnlyWhenShown ==
  (call.name = "render" /\ err = "") =>
    IF ScrollbarShown(call.args[1])
      THEN \E i, j, k \in 1..Len(ops) :
             /\ i < j /\ j < k
             /\ OpsOf("scrollbarClear") = {i}
             /\ OpsOf("scrollbarTrack") = {j}
             /\ OpsOf("scrollbarThumb") = {k}
             /\ ops[i].style = rgbaToCss(theme.background)
      ELSE OpsOf("scrollbarClear") \cup OpsOf("scrollbarTrack") \cup OpsOf("scrollbarThumb") = {}

\* Math.round(v * 0.15) for a non-negative integer v.
Round15(v) == (v * 15 + 50) \div 100

\* The frame's cursor is one rectangle in the theme's cursor colour, at the
\* cursor's cell, of the style's shape with strips of the given thickness;
\* no cursor is drawn when it is not visible.
CursorDrawn(underlineHeight, barWidth) ==
  LET input == call.args[1]
      x == input.cursorX * metrics.width
      y == input.cursorY * metrics.height
  IN IF ~input.cursorVisible THEN OpsOf("cursor") = {}
     ELSE \E i \in 1..Len(ops) :
            /\ OpsOf("cursor") = {i}
            /\ ops[i].style = rgbaToCss(theme.cursor)
            /\ ops[i].x = x
            /\ CASE input.cursorStyle = "block" ->
                      /\ ops[i].y = y
                      /\ ops[i].w = metrics.width /\ ops[i].h = metrics.height
                 [] input.cursorStyle = "underline" ->
                      /\ ops[i].y = y + metrics.height - underlineHeight
                      /\ ops[i].w = metrics.width /\ ops[i].h = underlineHeight
                 [] input.cursorStyle = "bar" ->
                      /\ ops[i].y = y
                      /\ ops[i].w = barWidth /\ ops[i].h = metrics.height

\* C20: render() draws the cursor iff cursorVisible, as one rectangle in the
\* cursor colour: block the whole cell, underline a bottom strip of height
\* max(2, 15% of the cell height), bar a left strip of the full cell height
\* and of width max(2, round(0.15 * cellWidth)), for every cell width.
C20_CursorGeometry ==
  (call.name = "render" /\ err = "") =>
    CursorDrawn(Max(2, Floor15(metrics.height)), Max(2, Round15(metrics.width)))

\* The same with the bar's width rounded down, as renderCursor computes it.
C20_CursorGeometryFloor ==
  (call.name = "render" /\ err = "") =>
    CursorDrawn(Max(2, Floor15(metrics.height)), Max(2, Floor15(metrics.width)))

\* ------------------------------------------------------------------------
\* Properties of the cell passes
\* ------------------------------------------------------------------------
\* The cell of a frame's input at column x of row y.
CellAt(input, x, y) == input.viewportCells[y * input.cols + x + 1]

\* The cell's own foreground, after the INVERSE swap, as a fill style.
OwnForeground(cell) ==
  IF "INVERSE" \in cell.flags THEN rgbToCSS(cell.bg_r, cell.bg_g, cell.bg_b)
  ELSE rgbToCSS(cell.fg_r, cell.fg_g, cell.fg_b)

\* C21: a theme resolved from an override that does not set
\* selectionForeground, or from no override, has a null selectionForeground,
\* and in a frame drawn with it the glyph of a selected cell keeps the cell's
\* own foreground (after the INVERSE swap).
C21_SelectedGlyphKeepsOwnColour ==
  [][(/\ call.name = "setTheme" /\ err = ""
      /\ Given(OverrideOf).selectionForeground.t \in {"absent", "undefined"}
      /\ call'.name = "render" /\ call'.args[1].selectionRange # <<>>)
       => /\ theme.selectionForeground = <<>>
          /\ \A i \in 1..Len(ops') :
               ops'[i].kind = "glyph" =>
                 ops'[i].style = OwnForeground(CellAt(call'.args[1], ops'[i].col, ops'[i].row))]_vars

\* What renderCellText does with the theme it is given: the glyph of a
\* selected cell is in the theme's selection foreground when the theme has
\* one and in the cell's own foreground otherwise; an unselected cell's glyph
\* always keeps its own.
C21_SelectionForegroundWhenResolved ==
  (call.name = "render" /\ err = "") =>
    \A i \in 1..Len(ops) :
      ops[i].kind = "glyph" =>
        ops[i].style =
          IF <<ops[i].col, ops[i].row>> \in Overlaid /\ theme.selectionForeground # <<>>
            THEN rgbaToCss(theme.selectionForeground[1])
            ELSE OwnForeground(CellAt(call.args[1], ops[i].col, ops[i].row))

\* C25: reduced alpha never leaks. The global alpha is below 1 only for the
\* glyph fill of a FAINT cell (one half) and for the selection-overlay fill
\* of a selected cell (the theme's selectionOpacity); it is 1 for every other
\* draw operation of the render and when render returns.
C25_AlphaNeverLeaks ==
  (call.name = "render" /\ err = "") =>
    /\ context.globalAlpha = AlphaOne
    /\ \A i \in 1..Len(ops) :
         IF ops[i].kind = "glyph"
              /\ "FAINT" \in CellAt(call.args[1], ops[i].col, ops[i].row).flags
           THEN ops[i].alpha = AlphaOne \div 2
         ELSE IF ops[i].kind = "selOverlay"
           THEN ops[i].alpha = theme.selectionOpacity
         ELSE ops[i].alpha = AlphaOne

C25_Witness ==
  /\ call.name = "render" /\ err = ""
  /\ \E i, j, k \in 1..Len(ops) :
       /\ i < j /\ j < k
       /\ ops[i].kind = "selOverlay" /\ ops[i].alpha < AlphaOne
       /\ ops[j].kind = "glyph" /\ ops[j].alpha = AlphaOne \div 2 /\ ops[j].col = ops[i].col
       /\ ops[k].kind = "underline" /\ ops[k].col = ops[j].col /\ ops[k].row = ops[j].row
       /\ ops[k].alpha = AlphaOne

\* The operations render() issued for the cell at column x of row y.
CellOps(x, y) == {i \in 1..Len(ops) : ops[i].col = x /\ ops[i].row = y}

\* The colour pass 1 takes as the cell's background: <<r, g, b>>.
EffectiveBackground(cell) ==
  IF "INVERSE" \in cell.flags THEN <<cell.fg_r, cell.fg_g, cell.fg_b>>
  ELSE <<cell.bg_r, cell.bg_g, cell.bg_b>>

\* C26: in pass 1 the effective background of a cell is its foreground when
\* INVERSE is set and its background otherwise; a non-spacer cell gets a
\* background rectangle, in that colour, iff it is not (0, 0, 0); a spacer
\* cell (width 0) draws nothing in either pass.
C26_EffectiveBackground ==
  (call.name = "render" /\ err = "") =>
    \A x \in 0..(call.args[1].cols - 1), y \in Repainted :
      LET cell == CellAt(call.args[1], x, y)
          eff == EffectiveBackground(cell)
          fills == {i \in CellOps(x, y) : ops[i].kind = "cellBg"}
      IN IF cell.width = 0 THEN CellOps(x, y) = {}
         ELSE /\ fills # {} <=> eff # <<0, 0, 0>>
              /\ \A i, j \in fills : i = j
              /\ \A i \in fills : ops[i].style = rgbToCSS(eff[1], eff[2], eff[3])

C26_Witness ==
  /\ call.name = "render" /\ err = ""
  /\ LET first == CellAt(call.args[1], 0, 0)
         second == CellAt(call.args[1], 1, 0)
     IN /\ "INVERSE" \in first.flags /\ first.width = 1
        /\ first.fg_r = 212 /\ first.bg_b = 0
        /\ \E i \in CellOps(0, 0) : ops[i].kind = "cellBg" /\ ops[i].style = rgbToCSS(212, 212, 0)
        /\ "INVERSE" \in second.flags /\ second.width = 1
        /\ second.fg_r = 0 /\ second.bg_b = 90
        /\ \A i \in CellOps(1, 0) : ops[i].kind # "cellBg"
        /\ CellOps(1, 0) # {}

\* ------------------------------------------------------------------------
\* Properties of render's use of its input
\* ------------------------------------------------------------------------
\* C22: render(input) leaves the caller's data as it was: the cell sequence
\* and the row flags, every DIRTY, HAS_SELECTION and HAS_HYPERLINK bit
\* included, are the same when the call returns, and the renderer's fields
\* hold nothing of the input but its theme, selection range, hovered link and
\* grapheme lookup, so no reference to the cell sequence stays behind.
C22_InputUntouched ==
  [][(call.name = "input" /\ call'.name = "render") =>
       /\ call'.args[1].viewportCells = call.args[1].viewportCells
       /\ call'.args[1].rowFlags = call.args[1].rowFlags
       /\ call'.args = call.args
       /\ theme' = call.args[1].theme
       /\ currentSelectionRange' = call.args[1].selectionRange
       /\ currentHoveredLink' = call.args[1].hoveredLink
       /\ currentGetGraphemeString' = call.args[1].getGraphemeString
       /\ UNCHANGED <<canvas, ctx, devicePixelRatio, metrics, fontSize, size>>]_vars

C22_Witness ==
  /\ call.name = "render" /\ err = ""
  /\ Len(call.args[1].rowFlags) = MaxRows
  /\ \A y \in 1..MaxRows :
       call.args[1].rowFlags[y] = BitOr(ROW_DIRTY, BitOr(ROW_HAS_SELECTION, ROW_HAS_HYPERLINK))
  /\ Repainted = 0..(MaxRows - 1)

\* ------------------------------------------------------------------------
\* Properties of the line workloads
\* ------------------------------------------------------------------------
\* C23: createLineWorkload with linesPerChunk 0 or negative throws the
\* configuration error and returns no workload, whatever the lineCount, 0
\* included; it never returns an empty or partial chunk list.
C23_NonPositiveChunkSizeThrows ==
  (call.name = "createLineWorkload" /\ call.args[1].linesPerChunk <= 0) =>
    /\ err = ChunkSizeError
    /\ Len(call.args) = 1

C23_Witness ==
  /\ call.name = "createLineWorkload"
  /\ call.args[1].linesPerChunk = 0
  /\ call.args[1].lineCount = 0
  /\ err = ChunkSizeError

\* With a positive chunk size the workload holds every line, in order, in
\* chunks of linesPerChunk lines, the last one possibly shorter.
WorkloadReturned ==
  (call.name = "createLineWorkload" /\ call.args[1].linesPerChunk > 0) =>
    /\ err = ""
    /\ Len(call.args) = 2
    /\ LET n == IF call.args[1].lineCount < 0 THEN 0 ELSE call.args[1].lineCount
           per == call.args[1].linesPerChunk
       IN Len(call.args[2].chunks) = (n + per - 1) \div per

\* ------------------------------------------------------------------------
\* Properties of the hovered link
\* ------------------------------------------------------------------------
\* The cells render() drew the plain-text link underline for.
Linked == {<<ops[i].col, ops[i].row>> : i \in {j \in 1..Len(ops) : ops[j].kind = "link"}}

NormalizedSpan(r) == r.startY < r.endY \/ (r.startY = r.endY /\ r.startX <= r.endX)

\* The inclusive span of the claim.
InSpan(r, x, y) ==
  \/ /\ r.startY = r.endY /\ y = r.startY /\ r.startX <= x /\ x <= r.endX
  \/ /\ r.startY < r.endY
     /\ \/ y = r.startY /\ x >= r.startX
        \/ y = r.endY /\ x <= r.endX
        \/ r.startY < y /\ y < r.endY

\* C24: with a hovered link whose span is normalized, a cell that is neither
\* a spacer nor invisible gets the link underline iff it lies in the
\* inclusive span (one row: startX..endX; several rows: from startX on the
\* first, up to endX on the last, every column between); no cell of a row
\* outside startY..endY is underlined.
C24_LinkUnderlineSpan ==
  (call.name = "render" /\ err = "" /\ call.args[1].hoveredLink # <<>>
     /\ call.args[1].hoveredLink[1].range # <<>>
     /\ NormalizedSpan(call.args[1].hoveredLink[1].range[1])) =>
    LET input == call.args[1]
        r == input.hoveredLink[1].range[1]
    IN /\ \A x \in 0..(input.cols - 1), y \in 0..(input.rows - 1) :
            (CellAt(input, x, y).width # 0 /\ "INVISIBLE" \notin CellAt(input, x, y).flags) =>
              (<<x, y>> \in Linked <=> InSpan(r, x, y))
       /\ \A c \in Linked : r.startY <= c[2] /\ c[2] <= r.endY

C24_Witness ==
  /\ call.name = "render" /\ err = ""
  /\ call.args[1].hoveredLink # <<>>
  /\ LET r == call.args[1].hoveredLink[1].range[1]
     IN /\ r.endY >= r.startY + 2
        /\ r.startX > r.endX
        /\ <<0, r.startY + 1>> \in Linked
        /\ <<r.startX, r.startY>> \in Linked
        /\ <<r.endX, r.startY>> \notin Linked
        /\ <<r.startX, r.endY>> \notin Linked

\* ------------------------------------------------------------------------
\* Properties of the retained style state
\* ------------------------------------------------------------------------
\* The renderer's style fields as a render with this input leaves them.
StyleOf(input) ==
  <<input.theme, input.selectionRange, input.hoveredLink, input.getGraphemeString>>

StyleNow == <<theme, currentSelectionRange, currentHoveredLink, currentGetGraphemeString>>

\* C27: the renderer retains only the most recently seen style state. Each
\* updateTheme, each setTheme that returns and each render that returns
\* replaces the theme by its own (a render also the selection, the hovered
\* link and the grapheme lookup); no other call, and no call that fails,
\* changes any of them; and clear(), resize() and a render's row clears fill
\* with the background of the theme so retained.
C27_MostRecentStyle ==
  [][calls' = calls + 1 =>
       /\ CASE call'.name = "updateTheme" ->
                 StyleNow' = <<call'.args[1], currentSelectionRange, currentHoveredLink,
                               currentGetGraphemeString>>
            [] call'.name = "setTheme" /\ err' = "" ->
                 StyleNow' = <<resolveTheme(call'.args[1]).v, currentSelectionRange,
                               currentHoveredLink, currentGetGraphemeString>>
            [] call'.name = "render" /\ err' = "" -> StyleNow' = StyleOf(call'.args[1])
            [] OTHER -> StyleNow' = StyleNow
       /\ (call'.name \in {"clear", "resize"} /\ err' = "") =>
            /\ Len(ops') = 1
            /\ ops'[1].style = rgbaToCss(theme.background)
       /\ (call'.name = "render" /\ err' = "") =>
            \A i \in 1..Len(ops') :
              ops'[i].kind = "rowClear" => ops'[i].style = rgbaToCss(call'.args[1].theme.background)]_vars

C27_Witness ==
  /\ call.name = "clear" /\ err = ""
  /\ calls = 4
  /\ theme = resolveTheme(<<OneSlot("background", JsString(<<"#", "f", "f", "f">>))>>).v
  /\ currentGetGraphemeString = 2
  /\ currentSelectionRange # <<>>
  /\ ops[1].style = <<"rgb", 255, 255, 255>>

====
